---- MODULE Spec2Model ----
(***************************************************************************)
(* civic_ledger (anchor_project/programs/civic_ledger): the air-quality    *)
(* sensor accounts and the contract accounts of the program, the           *)
(* instruction handlers that mutate them, and the runtime's commit of a    *)
(* handler's effects (an instruction that returns Err commits nothing).    *)
(*                                                                         *)
(* Numbers.  An f32 field holds a multiple of 1/Unit, written as the       *)
(* number of its steps: F(x) is the f32 value x.  Unit is a power of two,  *)
(* so within the ranges used here every f32 operation of the handlers is   *)
(* exact except the divisions of is_significant_change, and there          *)
(* d / m > 0.05 (0.1) agrees with 20 * d > m (10 * d > m): the quotients   *)
(* that are not exactly 1/20 (1/10) differ from it by far more than one    *)
(* f32 rounding step.  NaN is never an argument: the instruction data      *)
(* decoder rejects it.                                                     *)
(* meets_percentage_threshold (utils.rs) is computed on whole numbers in   *)
(* f32 arithmetic proper, with the rounding of its division and product.   *)
(*                                                                         *)
(* Strings are sequences of characters; len() is Len.                      *)
(***************************************************************************)
EXTENDS Integers, Sequences, FiniteSets, TLC

VARIABLES
    sensors,     \* address -> AirQuality account (the initialized ones)
    contracts,   \* address -> Contract account (the initialized ones)
    now,         \* Clock::get().unix_timestamp
    receipt      \* the instruction just executed: caller, accounts, arguments, result,
                 \* committed events, and the clock and the accounts as it found them

vars == <<sensors, contracts, now, receipt>>

----------------------------------------------------------------------------
(* Bounds of the model *)

\* the clock stops advancing here
MaxTime == 86401
\* the counted mutations (update_count, version, execution_count) of all accounts
\* together stop here
MaxMutations == 2
\* accounts the store holds at most (sensors and contracts together)
MaxAccounts == 3

----------------------------------------------------------------------------
(* Program constants *)

MaxAqi == 500
MaxPm == 1000
MaxCo2 == 10000
MaxHumidity == 100
MinTemperature == -50
MaxTemperature == 100
MaxLocationLen == 50
MaxSensorIdLen == 30
MaxNameLen == 50
MaxDescriptionLen == 200
MaxContractTypeLen == 30
DaySeconds == 86400
MaxSensorBatch == 3
MaxContractBatch == 2
DefaultCo2 == 400
DefaultHumidity == 50
DefaultTemperature == 20
HumidityDelta == 5
TemperatureDelta == 2

----------------------------------------------------------------------------
(* Inputs *)

Authorities == {"alice", "bob"}

\* a string of n characters c
Str(n, c) == [i \in 1..n |-> c]

\* the steps of an f32 field in one unit, and the f32 value x in steps
Unit == 16
F(x) == x * Unit

Abs(x) == IF x < 0 THEN -x ELSE x
Max(a, b) == IF a >= b THEN a ELSE b

Reading(a, p25, p10, c, h, t) ==
    [aqi |-> a, pm25 |-> p25, pm10 |-> p10, co2 |-> c, humidity |-> h, temperature |-> t]

\* the six metrics of an account
ReadingOf(acct) ==
    Reading(acct.aqi, acct.pm25, acct.pm10, acct.co2, acct.humidity, acct.temperature)

\* the values InitializeAirQuality stores
DefaultReading ==
    Reading(0, 0, 0, F(DefaultCo2), F(DefaultHumidity), F(DefaultTemperature))
\* every field at its upper bound
TopReading ==
    Reading(MaxAqi, F(MaxPm), F(MaxPm), F(MaxCo2), F(MaxHumidity), F(MaxTemperature))
\* noise around the default reading: no field crosses its threshold
JitterReading ==
    Reading(0, 0, 0, F(DefaultCo2 + 20), F(DefaultHumidity + 5), F(DefaultTemperature - 2))

\* one field one step outside its bound, the others at that bound
OutOfRangeReadings ==
    { [TopReading EXCEPT !.aqi = MaxAqi + 1],
      [TopReading EXCEPT !.humidity = F(MaxHumidity) + 1] }

InRangeReadings == {DefaultReading, TopReading, JitterReading}

Readings == InRangeReadings \cup OutOfRangeReadings

----------------------------------------------------------------------------
(* air_quality.rs: AirQuality *)

\* the arguments of InitializeAirQuality: <<location, sensor_id>>
SensorSeeds ==
    { <<Str(1, "a"), Str(1, "s")>>,
      <<Str(MaxLocationLen, "b"), Str(1, "s")>>,
      <<Str(1, "c"), Str(MaxSensorIdLen, "s")>>,
      <<Str(MaxLocationLen + 1, "d"), Str(1, "s")>>,
      <<Str(1, "e"), Str(MaxSensorIdLen + 1, "s")>> }
\* the address of a sensor account: its seeds
SensorAddr(location, sensor_id) == <<location, sensor_id>>

\* validate_sensor_data without the upper bound of humidity
validate_sensor_data_open(d) ==
    IF ~(d.aqi <= MaxAqi) THEN "InvalidAQIValue"
    ELSE IF ~(d.pm25 >= 0 /\ d.pm25 <= F(MaxPm)) THEN "InvalidPM25Value"
    ELSE IF ~(d.pm10 >= 0 /\ d.pm10 <= F(MaxPm)) THEN "InvalidPM10Value"
    ELSE IF ~(d.co2 >= 0 /\ d.co2 <= F(MaxCo2)) THEN "InvalidCO2Value"
    ELSE IF ~(d.humidity >= 0) THEN "InvalidHumidityValue"
    ELSE IF ~(d.temperature >= F(MinTemperature) /\ d.temperature <= F(MaxTemperature))
         THEN "InvalidTemperatureValue"
    ELSE "Ok"

\* validate_sensor_data with the upper bounds exclusive
validate_sensor_data_exclusive(d) ==
    IF ~(d.aqi < MaxAqi) THEN "InvalidAQIValue"
    ELSE IF ~(d.pm25 >= 0 /\ d.pm25 < F(MaxPm)) THEN "InvalidPM25Value"
    ELSE IF ~(d.pm10 >= 0 /\ d.pm10 < F(MaxPm)) THEN "InvalidPM10Value"
    ELSE IF ~(d.co2 >= 0 /\ d.co2 < F(MaxCo2)) THEN "InvalidCO2Value"
    ELSE IF ~(d.humidity >= 0 /\ d.humidity < F(MaxHumidity)) THEN "InvalidHumidityValue"
    ELSE IF ~(d.temperature >= F(MinTemperature) /\ d.temperature < F(MaxTemperature))
         THEN "InvalidTemperatureValue"
    ELSE "Ok"

validate_sensor_data(d) ==
    IF ~(d.aqi <= MaxAqi) THEN "InvalidAQIValue"
    ELSE IF ~(d.pm25 >= 0 /\ d.pm25 <= F(MaxPm)) THEN "InvalidPM25Value"
    ELSE IF ~(d.pm10 >= 0 /\ d.pm10 <= F(MaxPm)) THEN "InvalidPM10Value"
    ELSE IF ~(d.co2 >= 0 /\ d.co2 <= F(MaxCo2)) THEN "InvalidCO2Value"
    ELSE IF ~(d.humidity >= 0 /\ d.humidity <= F(MaxHumidity)) THEN "InvalidHumidityValue"
    ELSE IF ~(d.temperature >= F(MinTemperature) /\ d.temperature <= F(MaxTemperature))
         THEN "InvalidTemperatureValue"
    ELSE "Ok"

\* the relative change with a stored value of zero treated as no change
RelativeChange_nonzero(old, new, one, den) == old # 0 /\ den * Abs(new - old) > old

\* |new - old| / max(old, one) > 1 / den
RelativeChange(old, new, one, den) == den * Abs(new - old) > Max(old, one)

\* is_significant_change with a time rule of one hour
is_significant_change_hourly(self, d, clock) ==
    LET aqi_change == RelativeChange(self.aqi, d.aqi, 1, 20)
        pm25_change == RelativeChange(self.pm25, d.pm25, F(1), 10)
        pm10_change == RelativeChange(self.pm10, d.pm10, F(1), 10)
        co2_change == RelativeChange(self.co2, d.co2, F(1), 20)
        humidity_change == Abs(d.humidity - self.humidity) > F(HumidityDelta)
        temp_change == Abs(d.temperature - self.temperature) > F(TemperatureDelta)
        time_threshold == clock - self.updated_at > 3600
    IN  aqi_change \/ pm25_change \/ pm10_change \/ co2_change
            \/ humidity_change \/ temp_change \/ time_threshold

\* is_significant_change without the 24 hours rule
is_significant_change_untimed(self, d, clock) ==
    LET aqi_change == RelativeChange(self.aqi, d.aqi, 1, 20)
        pm25_change == RelativeChange(self.pm25, d.pm25, F(1), 10)
        pm10_change == RelativeChange(self.pm10, d.pm10, F(1), 10)
        co2_change == RelativeChange(self.co2, d.co2, F(1), 20)
        humidity_change == Abs(d.humidity - self.humidity) > F(HumidityDelta)
        temp_change == Abs(d.temperature - self.temperature) > F(TemperatureDelta)
    IN  aqi_change \/ pm25_change \/ pm10_change \/ co2_change
            \/ humidity_change \/ temp_change

\* is_significant_change with the 24 hours rule firing at 24 hours
is_significant_change_inclusive(self, d, clock) ==
    LET aqi_change == RelativeChange(self.aqi, d.aqi, 1, 20)
        pm25_change == RelativeChange(self.pm25, d.pm25, F(1), 10)
        pm10_change == RelativeChange(self.pm10, d.pm10, F(1), 10)
        co2_change == RelativeChange(self.co2, d.co2, F(1), 20)
        humidity_change == Abs(d.humidity - self.humidity) > F(HumidityDelta)
        temp_change == Abs(d.temperature - self.temperature) > F(TemperatureDelta)
        time_threshold == clock - self.updated_at >= DaySeconds
    IN  aqi_change \/ pm25_change \/ pm10_change \/ co2_change
            \/ humidity_change \/ temp_change \/ time_threshold

is_significant_change(self, d, clock) ==
    LET aqi_change == RelativeChange(self.aqi, d.aqi, 1, 20)
        pm25_change == RelativeChange(self.pm25, d.pm25, F(1), 10)
        pm10_change == RelativeChange(self.pm10, d.pm10, F(1), 10)
        co2_change == RelativeChange(self.co2, d.co2, F(1), 20)
        humidity_change == Abs(d.humidity - self.humidity) > F(HumidityDelta)
        temp_change == Abs(d.temperature - self.temperature) > F(TemperatureDelta)
        time_threshold == clock - self.updated_at > DaySeconds
    IN  aqi_change \/ pm25_change \/ pm10_change \/ co2_change
            \/ humidity_change \/ temp_change \/ time_threshold

\* update_data without the increment of update_count
update_data_uncounted(self, d, clock) ==
    LET v == validate_sensor_data(d)
    IN  IF v # "Ok"
        THEN [result |-> v, acct |-> self]
        ELSE [result |-> "Ok",
              acct |-> [self EXCEPT !.aqi = d.aqi,
                                    !.pm25 = d.pm25,
                                    !.pm10 = d.pm10,
                                    !.co2 = d.co2,
                                    !.humidity = d.humidity,
                                    !.temperature = d.temperature,
                                    !.updated_at = clock]]

\* update_data leaving updated_at as it was
update_data_untimed(self, d, clock) ==
    LET v == validate_sensor_data(d)
    IN  IF v # "Ok"
        THEN [result |-> v, acct |-> self]
        ELSE [result |-> "Ok",
              acct |-> [self EXCEPT !.aqi = d.aqi,
                                    !.pm25 = d.pm25,
                                    !.pm10 = d.pm10,
                                    !.co2 = d.co2,
                                    !.humidity = d.humidity,
                                    !.temperature = d.temperature,
                                    !.update_count = self.update_count + 1]]

\* [result, acct]: acct is self as the call leaves it
update_data(self, d, clock) ==
    LET v == validate_sensor_data(d)
    IN  IF v # "Ok"
        THEN [result |-> v, acct |-> self]
        ELSE [result |-> "Ok",
              acct |-> [self EXCEPT !.aqi = d.aqi,
                                    !.pm25 = d.pm25,
                                    !.pm10 = d.pm10,
                                    !.co2 = d.co2,
                                    !.humidity = d.humidity,
                                    !.temperature = d.temperature,
                                    !.updated_at = clock,
                                    !.update_count = self.update_count + 1]]

AirQualityUpdated(addr, d, timestamp) ==
    [type |-> "AirQualityUpdated", account |-> addr, aqi |-> d.aqi, pm25 |-> d.pm25,
     pm10 |-> d.pm10, co2 |-> d.co2, humidity |-> d.humidity,
     temperature |-> d.temperature, timestamp |-> timestamp]

AirQualityInitialized(addr, location, sensor_id, authority) ==
    [type |-> "AirQualityInitialized", account |-> addr, location |-> location,
     sensor_id |-> sensor_id, authority |-> authority]

\* InitializeAirQuality::process without the length requirements
InitializeAirQuality_process_unchecked(caller, location, sensor_id, clock) ==
    LET addr == SensorAddr(location, sensor_id)
        acct == [location |-> location, sensor_id |-> sensor_id, authority |-> caller,
                 created_at |-> clock, updated_at |-> clock, update_count |-> 0,
                 aqi |-> 0, pm25 |-> 0, pm10 |-> 0, co2 |-> F(DefaultCo2),
                 humidity |-> F(DefaultHumidity), temperature |-> F(DefaultTemperature)]
    IN  [result |-> "Ok", acct |-> acct,
         events |-> <<AirQualityInitialized(addr, location, sensor_id, caller)>>]

\* [result, acct, events]
InitializeAirQuality_process(caller, location, sensor_id, clock) ==
    LET addr == SensorAddr(location, sensor_id)
        acct == [location |-> location, sensor_id |-> sensor_id, authority |-> caller,
                 created_at |-> clock, updated_at |-> clock, update_count |-> 0,
                 aqi |-> 0, pm25 |-> 0, pm10 |-> 0, co2 |-> F(DefaultCo2),
                 humidity |-> F(DefaultHumidity), temperature |-> F(DefaultTemperature)]
    IN  IF ~(Len(location) <= MaxLocationLen) THEN [result |-> "NameTooLong", events |-> <<>>]
        ELSE IF ~(Len(sensor_id) <= MaxSensorIdLen)
             THEN [result |-> "NameTooLong", events |-> <<>>]
        ELSE [result |-> "Ok", acct |-> acct,
              events |-> <<AirQualityInitialized(addr, location, sensor_id, caller)>>]

\* UpdateAirQuality::process without the significance gate
UpdateAirQuality_process_ungated(self, addr, d, clock) ==
    LET u == update_data(self, d, clock)
    IN  IF u.result # "Ok"
        THEN [result |-> u.result, acct |-> u.acct, events |-> <<>>]
        ELSE [result |-> "Ok", acct |-> u.acct,
              events |-> <<AirQualityUpdated(addr, d, u.acct.updated_at)>>]

\* [result, acct, events]
UpdateAirQuality_process(self, addr, d, clock) ==
    IF ~is_significant_change(self, d, clock)
    THEN [result |-> "Ok", acct |-> self, events |-> <<>>]
    ELSE LET u == update_data(self, d, clock)
         IN  IF u.result # "Ok"
             THEN [result |-> u.result, acct |-> u.acct, events |-> <<>>]
             ELSE [result |-> "Ok", acct |-> u.acct,
                   events |-> <<AirQualityUpdated(addr, d, u.acct.updated_at)>>]

\* the loop returning at the first entry it skips
RECURSIVE BatchUpdateLoop_return(_, _, _, _, _, _)
BatchUpdateLoop_return(accts, addrs, sensor_data, i, clock, events) ==
    IF i > Len(sensor_data)
    THEN [result |-> "Ok", accts |-> accts, events |-> events]
    ELSE IF ~(i <= Len(accts))
    THEN [result |-> "Ok", accts |-> accts, events |-> events]
    ELSE IF ~is_significant_change(accts[i], sensor_data[i], clock)
    THEN [result |-> "Ok", accts |-> accts, events |-> events]
    ELSE LET u == update_data(accts[i], sensor_data[i], clock)
         IN  IF u.result # "Ok"
             THEN [result |-> u.result, accts |-> [accts EXCEPT ![i] = u.acct],
                   events |-> events]
             ELSE BatchUpdateLoop_return(
                      [accts EXCEPT ![i] = u.acct], addrs, sensor_data, i + 1, clock,
                      Append(events,
                             AirQualityUpdated(addrs[i], sensor_data[i], u.acct.updated_at)))

\* the loop of BatchUpdateAirQuality::process from entry i on: [result, accts, events]
RECURSIVE BatchUpdateLoop(_, _, _, _, _, _)
BatchUpdateLoop(accts, addrs, sensor_data, i, clock, events) ==
    IF i > Len(sensor_data)
    THEN [result |-> "Ok", accts |-> accts, events |-> events]
    ELSE IF ~(i <= Len(accts))
    THEN BatchUpdateLoop(accts, addrs, sensor_data, i + 1, clock, events)
    ELSE IF ~is_significant_change(accts[i], sensor_data[i], clock)
    THEN BatchUpdateLoop(accts, addrs, sensor_data, i + 1, clock, events)
    ELSE LET u == update_data(accts[i], sensor_data[i], clock)
         IN  IF u.result # "Ok"
             THEN [result |-> u.result, accts |-> [accts EXCEPT ![i] = u.acct],
                   events |-> events]
             ELSE BatchUpdateLoop(
                      [accts EXCEPT ![i] = u.acct], addrs, sensor_data, i + 1, clock,
                      Append(events,
                             AirQualityUpdated(addrs[i], sensor_data[i], u.acct.updated_at)))

BatchUpdateAirQuality_process(accts, addrs, sensor_data, clock) ==
    IF ~(Len(sensor_data) <= MaxSensorBatch)
    THEN [result |-> "InvalidInput", accts |-> accts, events |-> <<>>]
    ELSE BatchUpdateLoop(accts, addrs, sensor_data, 1, clock, <<>>)

\* has_one on the first account only
HasOneAuthority_first(accts, caller, i) ==
    IF accts[1].authority # caller THEN "UnauthorizedAccess" ELSE "Ok"

\* has_one = authority @ CustomError::UnauthorizedAccess, account by account
RECURSIVE HasOneAuthority(_, _, _)
HasOneAuthority(accts, caller, i) ==
    IF i > Len(accts) THEN "Ok"
    ELSE IF accts[i].authority # caller THEN "UnauthorizedAccess"
    ELSE HasOneAuthority(accts, caller, i + 1)

----------------------------------------------------------------------------
(* contract.rs: Contract *)

\* Option<String>
None == [some |-> FALSE]
Some(s) == [some |-> TRUE, val |-> s]

\* the arguments of InitializeContract: <<name, description, contract_type>>
ContractSeeds ==
    { <<Str(1, "a"), <<>>, Str(1, "t")>>,
      <<Str(1, "b"), Str(1, "d"), Str(1, "t")>>,
      <<<<>>, <<>>, Str(1, "t")>>,
      <<Str(MaxNameLen + 1, "c"), <<>>, Str(1, "t")>>,
      <<Str(1, "e"), Str(MaxDescriptionLen + 1, "d"), Str(1, "t")>>,
      <<Str(1, "f"), <<>>, <<>>>>,
      <<Str(1, "g"), <<>>, Str(MaxContractTypeLen + 1, "t")>> }
\* the arguments of UpdateContractDetails
NewNames == {None, Some(Str(MaxNameLen, "a")), Some(Str(MaxNameLen + 1, "a"))}
NewDescriptions ==
    {None, Some(Str(MaxDescriptionLen, "d")), Some(Str(MaxDescriptionLen + 1, "d"))}
NewContractTypes == {None, Some(<<>>), Some(Str(MaxContractTypeLen, "t"))}
\* the address of a contract account: its seeds
ContractAddr(name, authority) == <<name, authority>>

validate_contract_data(name, description, contract_type) ==
    IF ~(Len(name) <= MaxNameLen) THEN "NameTooLong"
    ELSE IF ~(Len(description) <= MaxDescriptionLen) THEN "DescriptionTooLong"
    ELSE IF ~(Len(contract_type) <= MaxContractTypeLen) THEN "ContractTypeTooLong"
    ELSE IF ~(name # <<>>) THEN "InvalidInput"
    ELSE IF ~(contract_type # <<>>) THEN "InvalidInput"
    ELSE "Ok"

\* the three field blocks of update_contract, each on the account the previous one
\* left: [result, acct, changed]
update_name(st, name) ==
    IF st.result = "Ok" /\ name.some /\ name.val # st.acct.name
    THEN LET v == validate_contract_data(name.val, st.acct.description, st.acct.contract_type)
         IN  IF v # "Ok" THEN [st EXCEPT !.result = v]
             ELSE [st EXCEPT !.acct.name = name.val, !.changed = TRUE]
    ELSE st

\* the description block of update_contract passing over a description that fails
\* validation
update_description_lenient(st, description) ==
    IF st.result = "Ok" /\ description.some /\ description.val # st.acct.description
           /\ validate_contract_data(st.acct.name, description.val, st.acct.contract_type) = "Ok"
    THEN [st EXCEPT !.acct.description = description.val, !.changed = TRUE]
    ELSE st

update_description(st, description) ==
    IF st.result = "Ok" /\ description.some /\ description.val # st.acct.description
    THEN LET v == validate_contract_data(st.acct.name, description.val, st.acct.contract_type)
         IN  IF v # "Ok" THEN [st EXCEPT !.result = v]
             ELSE [st EXCEPT !.acct.description = description.val, !.changed = TRUE]
    ELSE st

\* the type block of update_contract raising the version itself
update_type_versioned(st, contract_type) ==
    IF st.result = "Ok" /\ contract_type.some /\ contract_type.val # st.acct.contract_type
    THEN LET v == validate_contract_data(st.acct.name, st.acct.description, contract_type.val)
         IN  IF v # "Ok" THEN [st EXCEPT !.result = v]
             ELSE [st EXCEPT !.acct.contract_type = contract_type.val,
                             !.acct.version = st.acct.version + 1, !.changed = TRUE]
    ELSE st

update_type(st, contract_type) ==
    IF st.result = "Ok" /\ contract_type.some /\ contract_type.val # st.acct.contract_type
    THEN LET v == validate_contract_data(st.acct.name, st.acct.description, contract_type.val)
         IN  IF v # "Ok" THEN [st EXCEPT !.result = v]
             ELSE [st EXCEPT !.acct.contract_type = contract_type.val, !.changed = TRUE]
    ELSE st

\* update_contract raising the version whether or not a field changed
update_contract_always(self, name, description, contract_type, clock) ==
    LET st == update_type(
                  update_description(
                      update_name([result |-> "Ok", acct |-> self, changed |-> FALSE], name),
                      description),
                  contract_type)
    IN  IF st.result = "Ok"
        THEN [st EXCEPT !.acct.updated_at = clock, !.acct.version = st.acct.version + 1]
        ELSE st

\* [result, acct, changed]
update_contract(self, name, description, contract_type, clock) ==
    LET st == update_type(
                  update_description(
                      update_name([result |-> "Ok", acct |-> self, changed |-> FALSE], name),
                      description),
                  contract_type)
    IN  IF st.result = "Ok" /\ st.changed
        THEN [st EXCEPT !.acct.updated_at = clock, !.acct.version = st.acct.version + 1]
        ELSE st

\* execute writing the clock to created_at
execute_created(self, clock) ==
    IF ~self.is_active
    THEN [result |-> "ContractInactive", acct |-> self]
    ELSE [result |-> "Ok",
          acct |-> [self EXCEPT !.execution_count = self.execution_count + 1,
                                !.created_at = clock]]

\* execute without the is_active requirement
execute_unchecked(self, clock) ==
    [result |-> "Ok",
     acct |-> [self EXCEPT !.execution_count = self.execution_count + 1,
                           !.updated_at = clock]]

\* [result, acct]
execute(self, clock) ==
    IF ~self.is_active
    THEN [result |-> "ContractInactive", acct |-> self]
    ELSE [result |-> "Ok",
          acct |-> [self EXCEPT !.execution_count = self.execution_count + 1,
                                !.updated_at = clock]]

ContractInitialized(addr, name, description, contract_type, authority) ==
    [type |-> "ContractInitialized", account |-> addr, name |-> name,
     description |-> description, contract_type |-> contract_type, authority |-> authority]

ContractStatusUpdated(addr, is_active, timestamp) ==
    [type |-> "ContractStatusUpdated", account |-> addr, is_active |-> is_active,
     timestamp |-> timestamp]

ContractUpdated(addr, name, description, contract_type, version, timestamp) ==
    [type |-> "ContractUpdated", account |-> addr, name |-> name,
     description |-> description, contract_type |-> contract_type, version |-> version,
     timestamp |-> timestamp]

ContractExecuted(addr, execution_count, timestamp) ==
    [type |-> "ContractExecuted", account |-> addr, execution_count |-> execution_count,
     timestamp |-> timestamp]

\* [result, acct, events]
InitializeContract_process(caller, name, description, contract_type, clock) ==
    LET v == validate_contract_data(name, description, contract_type)
        addr == ContractAddr(name, caller)
        acct == [name |-> name, description |-> description,
                 contract_type |-> contract_type, authority |-> caller,
                 is_active |-> TRUE, created_at |-> clock, updated_at |-> clock,
                 version |-> 1, execution_count |-> 0]
    IN  IF v # "Ok" THEN [result |-> v, events |-> <<>>]
        ELSE [result |-> "Ok", acct |-> acct,
              events |-> <<ContractInitialized(addr, name, description, contract_type, caller)>>]

\* process_status_update counting a flip of the flag as a new version
process_status_update_versioned(self, addr, is_active, clock) ==
    IF self.is_active # is_active
    THEN [result |-> "Ok",
          acct |-> [self EXCEPT !.is_active = is_active, !.updated_at = clock,
                                !.version = self.version + 1],
          events |-> <<ContractStatusUpdated(addr, is_active, clock)>>]
    ELSE [result |-> "Ok", acct |-> self, events |-> <<>>]

\* process_status_update writing updated_at whether or not the flag differs
process_status_update_touch(self, addr, is_active, clock) ==
    IF self.is_active # is_active
    THEN [result |-> "Ok",
          acct |-> [self EXCEPT !.is_active = is_active, !.updated_at = clock],
          events |-> <<ContractStatusUpdated(addr, is_active, clock)>>]
    ELSE [result |-> "Ok", acct |-> [self EXCEPT !.updated_at = clock], events |-> <<>>]

\* [result, acct, events]
process_status_update(self, addr, is_active, clock) ==
    IF self.is_active # is_active
    THEN [result |-> "Ok",
          acct |-> [self EXCEPT !.is_active = is_active, !.updated_at = clock],
          events |-> <<ContractStatusUpdated(addr, is_active, clock)>>]
    ELSE [result |-> "Ok", acct |-> self, events |-> <<>>]

unwrap_or(opt, default) == IF opt.some THEN opt.val ELSE default

\* UpdateContractDetails::process emitting ContractUpdated whether or not a field
\* changed
UpdateContractDetails_process_notify(self, addr, name, description, contract_type, clock) ==
    LET u == update_contract(self, name, description, contract_type, clock)
    IN  IF u.result # "Ok" THEN [result |-> u.result, acct |-> u.acct, events |-> <<>>]
        ELSE [result |-> "Ok", acct |-> u.acct,
              events |-> <<ContractUpdated(addr,
                                           unwrap_or(name, u.acct.name),
                                           unwrap_or(description, u.acct.description),
                                           unwrap_or(contract_type, u.acct.contract_type),
                                           u.acct.version, u.acct.updated_at)>>]

\* [result, acct, events]
UpdateContractDetails_process(self, addr, name, description, contract_type, clock) ==
    LET u == update_contract(self, name, description, contract_type, clock)
    IN  IF u.result # "Ok" THEN [result |-> u.result, acct |-> u.acct, events |-> <<>>]
        ELSE IF u.changed
        THEN [result |-> "Ok", acct |-> u.acct,
              events |-> <<ContractUpdated(addr,
                                           unwrap_or(name, u.acct.name),
                                           unwrap_or(description, u.acct.description),
                                           unwrap_or(contract_type, u.acct.contract_type),
                                           u.acct.version, u.acct.updated_at)>>]
        ELSE [result |-> "Ok", acct |-> u.acct, events |-> <<>>]

\* ExecuteContract::process building the event from the account as it found it
ExecuteContract_process_early(self, addr, clock) ==
    LET e == execute(self, clock)
    IN  IF e.result # "Ok" THEN [result |-> e.result, acct |-> e.acct, events |-> <<>>]
        ELSE [result |-> "Ok", acct |-> e.acct,
              events |-> <<ContractExecuted(addr, self.execution_count, self.updated_at)>>]

\* [result, acct, events]
ExecuteContract_process(self, addr, clock) ==
    LET e == execute(self, clock)
    IN  IF e.result # "Ok" THEN [result |-> e.result, acct |-> e.acct, events |-> <<>>]
        ELSE [result |-> "Ok", acct |-> e.acct,
              events |-> <<ContractExecuted(addr, e.acct.execution_count, e.acct.updated_at)>>]

\* the loop running over the slots, a slot without a flag taking false
RECURSIVE BatchStatusLoop_slots(_, _, _, _, _, _)
BatchStatusLoop_slots(accts, addrs, statuses, i, clock, events) ==
    LET is_active == IF i <= Len(statuses) THEN statuses[i] ELSE FALSE
    IN  IF i > Len(accts)
        THEN [result |-> "Ok", accts |-> accts, events |-> events]
        ELSE IF accts[i].is_active # is_active
        THEN BatchStatusLoop_slots(
                 [accts EXCEPT ![i] = [@ EXCEPT !.is_active = is_active, !.updated_at = clock]],
                 addrs, statuses, i + 1, clock,
                 Append(events, ContractStatusUpdated(addrs[i], is_active, clock)))
        ELSE BatchStatusLoop_slots(accts, addrs, statuses, i + 1, clock, events)

\* the loop storing the first flag of the list in every slot
RECURSIVE BatchStatusLoop_first(_, _, _, _, _, _)
BatchStatusLoop_first(accts, addrs, statuses, i, clock, events) ==
    IF i > Len(statuses)
    THEN [result |-> "Ok", accts |-> accts, events |-> events]
    ELSE IF ~(i <= Len(accts))
    THEN BatchStatusLoop_first(accts, addrs, statuses, i + 1, clock, events)
    ELSE IF accts[i].is_active # statuses[1]
    THEN BatchStatusLoop_first(
             [accts EXCEPT ![i] = [@ EXCEPT !.is_active = statuses[1], !.updated_at = clock]],
             addrs, statuses, i + 1, clock,
             Append(events, ContractStatusUpdated(addrs[i], statuses[1], clock)))
    ELSE BatchStatusLoop_first(accts, addrs, statuses, i + 1, clock, events)

\* the loop of process_batch_status_update from entry i on: [result, accts, events]
RECURSIVE BatchStatusLoop(_, _, _, _, _, _)
BatchStatusLoop(accts, addrs, statuses, i, clock, events) ==
    IF i > Len(statuses)
    THEN [result |-> "Ok", accts |-> accts, events |-> events]
    ELSE IF ~(i <= Len(accts))
    THEN BatchStatusLoop(accts, addrs, statuses, i + 1, clock, events)
    ELSE IF accts[i].is_active # statuses[i]
    THEN BatchStatusLoop(
             [accts EXCEPT ![i] = [@ EXCEPT !.is_active = statuses[i], !.updated_at = clock]],
             addrs, statuses, i + 1, clock,
             Append(events, ContractStatusUpdated(addrs[i], statuses[i], clock)))
    ELSE BatchStatusLoop(accts, addrs, statuses, i + 1, clock, events)

process_batch_status_update(accts, addrs, statuses, clock) ==
    IF ~(Len(statuses) <= MaxContractBatch)
    THEN [result |-> "InvalidInput", accts |-> accts, events |-> <<>>]
    ELSE BatchStatusLoop(accts, addrs, statuses, 1, clock, <<>>)

----------------------------------------------------------------------------
(* lib.rs: civic_ledger, the program revision without the gate *)

\* the AirQuality and Contract accounts of lib.rs holding what a holds: they have no
\* update_count, and no version or execution_count
LibAirQuality(a) ==
    [location |-> a.location, sensor_id |-> a.sensor_id, authority |-> a.authority,
     aqi |-> a.aqi, pm25 |-> a.pm25, pm10 |-> a.pm10, co2 |-> a.co2,
     humidity |-> a.humidity, temperature |-> a.temperature,
     created_at |-> a.created_at, updated_at |-> a.updated_at]
LibContract(c) ==
    [name |-> c.name, description |-> c.description, contract_type |-> c.contract_type,
     authority |-> c.authority, is_active |-> c.is_active,
     created_at |-> c.created_at, updated_at |-> c.updated_at]

\* [result, acct, events]
update_air_quality(self, addr, d, clock) ==
    IF ~(d.aqi <= MaxAqi) THEN [result |-> "InvalidAQIValue", acct |-> self, events |-> <<>>]
    ELSE IF ~(d.pm25 >= 0 /\ d.pm25 <= F(MaxPm))
    THEN [result |-> "InvalidPM25Value", acct |-> self, events |-> <<>>]
    ELSE IF ~(d.pm10 >= 0 /\ d.pm10 <= F(MaxPm))
    THEN [result |-> "InvalidPM10Value", acct |-> self, events |-> <<>>]
    ELSE IF ~(d.co2 >= 0 /\ d.co2 <= F(MaxCo2))
    THEN [result |-> "InvalidCO2Value", acct |-> self, events |-> <<>>]
    ELSE IF ~(d.humidity >= 0 /\ d.humidity <= F(MaxHumidity))
    THEN [result |-> "InvalidHumidityValue", acct |-> self, events |-> <<>>]
    ELSE IF ~(d.temperature >= F(MinTemperature) /\ d.temperature <= F(MaxTemperature))
    THEN [result |-> "InvalidTemperatureValue", acct |-> self, events |-> <<>>]
    ELSE [result |-> "Ok",
          acct |-> [self EXCEPT !.aqi = d.aqi,
                                !.pm25 = d.pm25,
                                !.pm10 = d.pm10,
                                !.co2 = d.co2,
                                !.humidity = d.humidity,
                                !.temperature = d.temperature,
                                !.updated_at = clock],
          events |-> <<AirQualityUpdated(addr, d, clock)>>]

\* [result, acct, events]
update_contract_status(self, addr, is_active, clock) ==
    [result |-> "Ok",
     acct |-> [self EXCEPT !.is_active = is_active, !.updated_at = clock],
     events |-> <<ContractStatusUpdated(addr, is_active, clock)>>]

----------------------------------------------------------------------------
(* utils.rs: EconomicOptimizer *)

\* a chain of calculate_update_priority written with three separate ifs
Tier_stacked(x, t1, s1, t2, s2, t3, s3) ==
    (IF x > t1 THEN s1 ELSE 0) + (IF x > t2 THEN s2 ELSE 0) + (IF x > t3 THEN s3 ELSE 0)

\* one if / else if / else if chain of calculate_update_priority
Tier(x, t1, s1, t2, s2, t3, s3) ==
    IF x > t1 THEN s1 ELSE IF x > t2 THEN s2 ELSE IF x > t3 THEN s3 ELSE 0

\* the six changes are f32 values, time_since_update is in seconds; the score is a
\* u32 and at most 430
calculate_update_priority(aqi_change, pm25_change, pm10_change, co2_change, humidity_change, temp_change, time_since_update) ==
    Tier(aqi_change, F(10), 100, F(5), 50, F(2), 20)
        + Tier(pm25_change, F(15), 80, F(10), 40, F(5), 16)
        + Tier(pm10_change, F(20), 60, F(15), 30, F(10), 12)
        + Tier(co2_change, F(100), 40, F(50), 20, F(25), 8)
        + Tier(humidity_change, F(20), 20, F(10), 10, F(5), 4)
        + Tier(temp_change, F(10), 30, F(5), 15, F(2), 6)
        + Tier(time_since_update, DaySeconds, 100, 43200, 50, 21600, 25)

\* f32 arithmetic of meets_percentage_threshold.  A positive f32 is [m, e], the value
\* m * 2^e with 2^23 <= m < 2^24; every operation rounds to the nearest such value,
\* ties to the even m.
F32Zero == [m |-> 0, e |-> 0]

\* q or q + 1: the quotient whose remainder is rem of den, rounded to nearest even
RoundQuotient(q, rem, den) ==
    IF 2 * rem > den \/ (2 * rem = den /\ q % 2 = 1) THEN q + 1 ELSE q

\* [m, e] with m brought back under 2^24 after rounding up
Renormalize(m, e) == IF m = 2^24 THEN [m |-> 2^23, e |-> e + 1] ELSE [m |-> m, e |-> e]

\* the least k with x * 2^k >= lo, as <<x * 2^k, k>>
RECURSIVE ScaleUp(_, _, _)
ScaleUp(x, k, lo) == IF x >= lo THEN <<x, k>> ELSE ScaleUp(2 * x, k + 1, lo)

\* the f32 quotient d / o of two whole numbers, 0 <= d < 2^23 * o, 0 < o < 128
DivF32(d, o) ==
    IF d = 0 THEN F32Zero
    ELSE LET s == ScaleUp(d, 0, 2^23 * o)
         IN  Renormalize(RoundQuotient(s[1] \div o, s[1] % o, o), -s[2])

\* the f32 product r * 100.0
Mul100F32(r) ==
    IF r.m = 0 THEN F32Zero
    ELSE LET p == r.m * 100
             shift == IF p >= 2^30 THEN 7 ELSE 6
         IN  Renormalize(RoundQuotient(p \div 2^shift, p % 2^shift, 2^shift), r.e + shift)

\* c >= threshold for an f32 c >= 0 and a whole number threshold below 2^23
GeF32(c, threshold) ==
    IF c.m = 0 THEN 0 >= threshold
    ELSE IF c.e >= 0 THEN TRUE
    ELSE c.m \div 2^(-c.e) >= threshold

\* old_value, new_value and threshold are whole numbers
meets_percentage_threshold(old_value, new_value, threshold) ==
    IF old_value = 0 THEN new_value # 0
    ELSE LET change_percentage ==
                 Mul100F32(DivF32(Abs(new_value - old_value), Abs(old_value)))
         IN  GeF32(change_percentage, threshold)

\* should_update comparing the score with > in place of >=
should_update_strict(old, new, last_update, minimum_score, clock) ==
    calculate_update_priority(F(Abs(new.aqi - old.aqi)),
                              Abs(new.pm25 - old.pm25),
                              Abs(new.pm10 - old.pm10),
                              Abs(new.co2 - old.co2),
                              Abs(new.humidity - old.humidity),
                              Abs(new.temperature - old.temperature),
                              clock - last_update) > minimum_score

\* old and new are the six old and the six new values; clock is Clock::get()
should_update(old, new, last_update, minimum_score, clock) ==
    LET aqi_change == F(Abs(new.aqi - old.aqi))
        pm25_change == Abs(new.pm25 - old.pm25)
        pm10_change == Abs(new.pm10 - old.pm10)
        co2_change == Abs(new.co2 - old.co2)
        humidity_change == Abs(new.humidity - old.humidity)
        temp_change == Abs(new.temperature - old.temperature)
        time_since_update == clock - last_update
        priority_score == calculate_update_priority(aqi_change, pm25_change, pm10_change,
                                                    co2_change, humidity_change,
                                                    temp_change, time_since_update)
    IN  priority_score >= minimum_score

-----------------------------------------------------------------------------
(* The instructions.  An instruction runs to completion; the runtime keeps *)
(* the accounts as the handler left them when it returns Ok and as they    *)
(* were when it returns Err.  The next instruction is submitted once the   *)
(* receipt of the previous one has been read (Callers).                    *)

NoReceipt == [op |-> "none"]
Idle == receipt.op = "none"
\* who may submit an instruction now
Callers == IF Idle THEN Authorities ELSE {}

\* the receipt of an instruction, with the accounts as it found them
Receipt(op, caller, accounts, args, r) ==
    [op |-> op, caller |-> caller, accounts |-> accounts, args |-> args,
     result |-> r.result, events |-> IF r.result = "Ok" THEN r.events ELSE <<>>,
     clock |-> now, sensors |-> sensors, contracts |-> contracts]

Failed(result) == [result |-> result, events |-> <<>>]

HasRoom == Cardinality(DOMAIN sensors) + Cardinality(DOMAIN contracts) < MaxAccounts

ClockSteps == {DaySeconds, DaySeconds + 1}

\* the accounts in the slots of a batch instruction: distinct, initialized
Slots(store, n) == {s \in [1..n -> DOMAIN store] : \A i, j \in 1..n : s[i] = s[j] => i = j}

RECURSIVE Sum(_, _)
Sum(f, S) == IF S = {} THEN 0 ELSE LET x == CHOOSE x \in S : TRUE IN f[x] + Sum(f, S \ {x})

\* the counted mutations of all accounts
Mutations(ss, cs) ==
    Sum([a \in DOMAIN ss |-> ss[a].update_count], DOMAIN ss)
        + Sum([a \in DOMAIN cs |-> (cs[a].version - 1) + cs[a].execution_count], DOMAIN cs)

\* the argument lists of a batch: every list within the limit, and one beyond it
Lists(S, n, x) == UNION {[1..k -> S] : k \in 0..n} \cup {[i \in 1..(n + 1) |-> x]}

BatchReadings == {TopReading, [TopReading EXCEPT !.humidity = F(MaxHumidity) + 1]}

\* the entries of store at addrs replaced by accts
RECURSIVE Store(_, _, _, _)
Store(store, addrs, accts, i) ==
    IF i > Len(addrs) THEN store
    ELSE Store([store EXCEPT ![addrs[i]] = accts[i]], addrs, accts, i + 1)

Init ==
    /\ sensors = <<>>
    /\ contracts = <<>>
    /\ now = 0
    /\ receipt = NoReceipt

Tick(d) ==
    /\ Idle
    /\ now + d <= MaxTime
    /\ now' = now + d
    /\ UNCHANGED <<sensors, contracts, receipt>>

\* the caller has read the receipt
Confirm ==
    /\ ~Idle
    /\ receipt' = NoReceipt
    /\ UNCHANGED <<sensors, contracts, now>>

\* InitializeAirQuality with init_if_needed in place of init
InitializeAirQuality_if_needed(caller, location, sensor_id) ==
    LET addr == SensorAddr(location, sensor_id)
        r == InitializeAirQuality_process(caller, location, sensor_id, now)
    IN  /\ addr \in DOMAIN sensors \/ HasRoom
        /\ sensors' = IF r.result = "Ok" THEN (addr :> r.acct) @@ sensors ELSE sensors
        /\ receipt' = Receipt("InitializeAirQuality", caller, <<addr>>,
                              <<location, sensor_id>>, r)
        /\ UNCHANGED <<contracts, now>>

InitializeAirQuality(caller, location, sensor_id) ==
    LET addr == SensorAddr(location, sensor_id)
        r == IF addr \in DOMAIN sensors THEN Failed("AccountAlreadyInUse")
             ELSE InitializeAirQuality_process(caller, location, sensor_id, now)
    IN  /\ addr \in DOMAIN sensors \/ HasRoom
        /\ sensors' = IF r.result = "Ok" THEN sensors @@ (addr :> r.acct) ELSE sensors
        /\ receipt' = Receipt("InitializeAirQuality", caller, <<addr>>,
                              <<location, sensor_id>>, r)
        /\ UNCHANGED <<contracts, now>>

UpdateAirQuality(addr, caller, d) ==
    LET r == IF HasOneAuthority(<<sensors[addr]>>, caller, 1) # "Ok"
             THEN Failed("UnauthorizedAccess")
             ELSE UpdateAirQuality_process(sensors[addr], addr, d, now)
    IN  /\ sensors' = IF r.result = "Ok" THEN [sensors EXCEPT ![addr] = r.acct] ELSE sensors
        /\ receipt' = Receipt("UpdateAirQuality", caller, <<addr>>, d, r)
        /\ UNCHANGED <<contracts, now>>
        /\ Mutations(sensors', contracts') <= MaxMutations

BatchUpdateAirQuality(addrs, caller, sensor_data) ==
    LET accts == [i \in 1..Len(addrs) |-> sensors[addrs[i]]]
        r == IF HasOneAuthority(accts, caller, 1) # "Ok"
             THEN Failed("UnauthorizedAccess")
             ELSE BatchUpdateAirQuality_process(accts, addrs, sensor_data, now)
    IN  /\ sensors' = IF r.result = "Ok" THEN Store(sensors, addrs, r.accts, 1) ELSE sensors
        /\ receipt' = Receipt("BatchUpdateAirQuality", caller, addrs, sensor_data, r)
        /\ UNCHANGED <<contracts, now>>
        /\ Mutations(sensors', contracts') <= MaxMutations

\* InitializeContract with init_if_needed in place of init
InitializeContract_if_needed(caller, name, description, contract_type) ==
    LET addr == ContractAddr(name, caller)
        r == InitializeContract_process(caller, name, description, contract_type, now)
    IN  /\ addr \in DOMAIN contracts \/ HasRoom
        /\ contracts' = IF r.result = "Ok" THEN (addr :> r.acct) @@ contracts ELSE contracts
        /\ receipt' = Receipt("InitializeContract", caller, <<addr>>,
                              <<name, description, contract_type>>, r)
        /\ UNCHANGED <<sensors, now>>

InitializeContract(caller, name, description, contract_type) ==
    LET addr == ContractAddr(name, caller)
        r == IF addr \in DOMAIN contracts THEN Failed("AccountAlreadyInUse")
             ELSE InitializeContract_process(caller, name, description, contract_type, now)
    IN  /\ addr \in DOMAIN contracts \/ HasRoom
        /\ contracts' = IF r.result = "Ok" THEN contracts @@ (addr :> r.acct) ELSE contracts
        /\ receipt' = Receipt("InitializeContract", caller, <<addr>>,
                              <<name, description, contract_type>>, r)
        /\ UNCHANGED <<sensors, now>>

\* UpdateContractStatus applied to every contract of the caller
UpdateContractStatus_all(addr, caller, is_active) ==
    LET r == IF HasOneAuthority(<<contracts[addr]>>, caller, 1) # "Ok"
             THEN Failed("UnauthorizedAccess")
             ELSE process_status_update(contracts[addr], addr, is_active, now)
    IN  /\ contracts' = IF r.result = "Ok"
                        THEN [a \in DOMAIN contracts |->
                                 IF contracts[a].authority = caller
                                 THEN process_status_update(contracts[a], a, is_active, now).acct
                                 ELSE contracts[a]]
                        ELSE contracts
        /\ receipt' = Receipt("UpdateContractStatus", caller, <<addr>>, is_active, r)
        /\ UNCHANGED <<sensors, now>>

UpdateContractStatus(addr, caller, is_active) ==
    LET r == IF HasOneAuthority(<<contracts[addr]>>, caller, 1) # "Ok"
             THEN Failed("UnauthorizedAccess")
             ELSE process_status_update(contracts[addr], addr, is_active, now)
    IN  /\ contracts' = IF r.result = "Ok" THEN [contracts EXCEPT ![addr] = r.acct]
                        ELSE contracts
        /\ receipt' = Receipt("UpdateContractStatus", caller, <<addr>>, is_active, r)
        /\ UNCHANGED <<sensors, now>>

UpdateContractDetails(addr, caller, name, description, contract_type) ==
    LET r == IF HasOneAuthority(<<contracts[addr]>>, caller, 1) # "Ok"
             THEN Failed("UnauthorizedAccess")
             ELSE UpdateContractDetails_process(contracts[addr], addr, name, description,
                                                contract_type, now)
    IN  /\ contracts' = IF r.result = "Ok" THEN [contracts EXCEPT ![addr] = r.acct]
                        ELSE contracts
        /\ receipt' = Receipt("UpdateContractDetails", caller, <<addr>>,
                              <<name, description, contract_type>>, r)
        /\ UNCHANGED <<sensors, now>>
        /\ Mutations(sensors', contracts') <= MaxMutations

ExecuteContract(addr, caller) ==
    LET r == IF HasOneAuthority(<<contracts[addr]>>, caller, 1) # "Ok"
             THEN Failed("UnauthorizedAccess")
             ELSE ExecuteContract_process(contracts[addr], addr, now)
    IN  /\ contracts' = IF r.result = "Ok" THEN [contracts EXCEPT ![addr] = r.acct]
                        ELSE contracts
        /\ receipt' = Receipt("ExecuteContract", caller, <<addr>>, <<>>, r)
        /\ UNCHANGED <<sensors, now>>
        /\ Mutations(sensors', contracts') <= MaxMutations

BatchContractStatusUpdate(addrs, caller, statuses) ==
    LET accts == [i \in 1..Len(addrs) |-> contracts[addrs[i]]]
        r == IF HasOneAuthority(accts, caller, 1) # "Ok"
             THEN Failed("UnauthorizedAccess")
             ELSE process_batch_status_update(accts, addrs, statuses, now)
    IN  /\ contracts' = IF r.result = "Ok" THEN Store(contracts, addrs, r.accts, 1)
                        ELSE contracts
        /\ receipt' = Receipt("BatchContractStatusUpdate", caller, addrs, statuses, r)
        /\ UNCHANGED <<sensors, now>>

\* the accounts in the slots of a batch, in the order of their addresses and rotated
SensorSlots ==
    {s \in Slots(sensors, MaxSensorBatch) :
        \/ s[1][1][1] = "a" /\ s[2][1][1] = "b"
        \/ s[2][1][1] = "a" /\ s[3][1][1] = "b"}
ContractSlots == {s \in Slots(contracts, MaxContractBatch) : s[1][1][1] = "a"}

SensorStep(sensor_seeds, readings, batch_readings) ==
    \/ \E caller \in Callers : \E seeds \in sensor_seeds[caller] :
           InitializeAirQuality(caller, seeds[1], seeds[2])
    \/ \E caller \in Callers : \E addr \in DOMAIN sensors, d \in readings :
           UpdateAirQuality(addr, caller, d)
    \/ \E caller \in Callers : \E addrs \in SensorSlots,
             sensor_data \in Lists(batch_readings, MaxSensorBatch, TopReading) :
           BatchUpdateAirQuality(addrs, caller, sensor_data)

ContractStep(contract_seeds, names, descriptions, contract_types) ==
    \/ \E caller \in Callers : \E seeds \in contract_seeds[caller] :
           InitializeContract(caller, seeds[1], seeds[2], seeds[3])
    \/ \E caller \in Callers : \E addr \in DOMAIN contracts, is_active \in BOOLEAN :
           UpdateContractStatus(addr, caller, is_active)
    \/ \E caller \in Callers : \E addr \in DOMAIN contracts,
             name \in names, description \in descriptions, contract_type \in contract_types :
           UpdateContractDetails(addr, caller, name, description, contract_type)
    \/ \E caller \in Callers : \E addr \in DOMAIN contracts : ExecuteContract(addr, caller)
    \/ \E caller \in Callers : \E addrs \in ContractSlots,
             statuses \in Lists(BOOLEAN, MaxContractBatch, TRUE) :
           BatchContractStatusUpdate(addrs, caller, statuses)

ClockStep == \E d \in ClockSteps : Tick(d)

\* the sensor instructions and the clock
Next ==
    \/ ClockStep
    \/ Confirm
    \/ SensorStep([caller \in Authorities |-> SensorSeeds], Readings, BatchReadings)

\* the contract instructions and the clock; one identity initializes the
\* contracts, the other calls on them
DetailsContractSeeds ==
    [caller \in Authorities |->
        IF caller = "alice"
        THEN {<<Str(1, "a"), <<>>, Str(1, "t")>>,
              <<Str(1, "b"), Str(1, "d"), Str(1, "t")>>,
              <<<<>>, <<>>, Str(1, "t")>>}
        ELSE {}]

NextContract ==
    \/ Tick(DaySeconds + 1)
    \/ Confirm
    \/ ContractStep(DetailsContractSeeds, NewNames, NewDescriptions, NewContractTypes)

\* the seeds each identity initializes accounts with in NextLedger: one sensor
\* address is asked for by both
LedgerSensorSeeds ==
    [caller \in Authorities |->
        IF caller = "alice"
        THEN {<<Str(1, "a"), Str(1, "s")>>, <<Str(1, "b"), Str(1, "s")>>,
              <<Str(1, "c"), Str(1, "s")>>, <<Str(1, "e"), Str(MaxSensorIdLen + 1, "s")>>}
        ELSE {<<Str(1, "c"), Str(1, "s")>>, <<Str(MaxLocationLen + 1, "d"), Str(1, "s")>>}]
LedgerContractSeeds ==
    [caller \in Authorities |->
        IF caller = "alice"
        THEN {<<Str(1, "a"), <<>>, Str(1, "t")>>, <<Str(1, "b"), <<>>, Str(1, "t")>>,
              <<<<>>, <<>>, Str(1, "t")>>}
        ELSE {<<Str(1, "b"), <<>>, Str(1, "t")>>,
              <<Str(MaxNameLen + 1, "c"), <<>>, Str(1, "t")>>}]

\* every instruction of the program, at one clock value
NextLedger ==
    \/ Confirm
    \/ SensorStep(LedgerSensorSeeds,
                  {TopReading, [TopReading EXCEPT !.humidity = F(MaxHumidity) + 1]}, {TopReading})
    \/ ContractStep(LedgerContractSeeds,
                    {None, Some(Str(MaxNameLen, "a")), Some(Str(MaxNameLen + 1, "a"))},
                    {None, Some(Str(MaxDescriptionLen + 1, "d"))}, {None, Some(<<>>)})

\* the seeds of the accounts of NextClock: one identity initializes them, the other
\* calls on them
ClockSensorSeeds ==
    [caller \in Authorities |->
        IF caller = "alice"
        THEN {<<Str(1, "a"), Str(1, "s")>>, <<Str(1, "b"), Str(1, "s")>>,
              <<Str(1, "c"), Str(1, "s")>>}
        ELSE {}]
ClockContractSeeds ==
    [caller \in Authorities |->
        IF caller = "alice"
        THEN {<<Str(1, "a"), <<>>, Str(1, "t")>>, <<Str(1, "b"), <<>>, Str(1, "t")>>}
        ELSE {}]

\* every instruction of the program, and a clock that passes the 24 hours in one step
NextClock ==
    \/ Tick(DaySeconds + 1)
    \/ Confirm
    \/ SensorStep(ClockSensorSeeds, {TopReading}, {TopReading})
    \/ ContractStep(ClockContractSeeds, {None, Some(Str(1, "n"))}, {None}, {None})

\* The gate on its own: an account that one update at time 0 has brought to one of
\* the stored readings, the clock at either side of the 24 hours, and updates that
\* move one field by a step count at either side of its threshold.
ZeroReading == Reading(0, 0, 0, 0, 0, F(MinTemperature))
\* pm25 at half a unit
LowReading == Reading(50, F(1) \div 2, F(20), F(1000), F(50), F(20))
GateStored == {ZeroReading, LowReading, TopReading}
GateClocks == {0, DaySeconds - 1, DaySeconds, DaySeconds + 1}

\* both directions of the step counts
Signed(S) == S \cup {-e : e \in S}
\* the greatest change of a relative field that is within 1/den of max(old, one),
\* the least that is beyond it, and the least that is beyond 1/den of old
RelativeSteps(old, one, den) ==
    Signed({Max(old, one) \div den, Max(old, one) \div den + 1, old \div den + 1})
AbsoluteSteps(delta) == Signed({delta, delta + 1})

\* the readings that differ from those of the account in at most one field
GateProposals(acct) ==
    LET r == ReadingOf(acct)
    IN  {r}
        \cup {[r EXCEPT !.aqi = r.aqi + e] :
                  e \in {x \in RelativeSteps(r.aqi, 1, 20) \cup {10} : r.aqi + x >= 0}}
        \cup {[r EXCEPT !.pm25 = r.pm25 + e] : e \in RelativeSteps(r.pm25, F(1), 10)}
        \cup {[r EXCEPT !.pm10 = r.pm10 + e] : e \in RelativeSteps(r.pm10, F(1), 10)}
        \cup {[r EXCEPT !.co2 = r.co2 + e] : e \in RelativeSteps(r.co2, F(1), 20)}
        \cup {[r EXCEPT !.humidity = r.humidity + e] : e \in AbsoluteSteps(F(HumidityDelta))}
        \cup {[r EXCEPT !.temperature = r.temperature + e] :
                  e \in AbsoluteSteps(F(TemperatureDelta))}

InitGate ==
    /\ \E d \in GateStored :
           sensors = (SensorAddr(Str(1, "a"), Str(1, "s")) :>
                         update_data(InitializeAirQuality_process(
                                         "alice", Str(1, "a"), Str(1, "s"), 0).acct,
                                     d, 0).acct)
    /\ contracts = <<>>
    /\ now \in GateClocks
    /\ receipt = NoReceipt

NextGate ==
    \/ Confirm
    \/ \E caller \in Callers : \E addr \in DOMAIN sensors :
           \E d \in GateProposals(sensors[addr]) : UpdateAirQuality(addr, caller, d)

\* the two initialize instructions with every kind of seeds, and the clock
NextInit ==
    \/ ClockStep
    \/ Confirm
    \/ \E caller \in Callers : \E seeds \in SensorSeeds :
           InitializeAirQuality(caller, seeds[1], seeds[2])
    \/ \E caller \in Callers : \E seeds \in ContractSeeds :
           InitializeContract(caller, seeds[1], seeds[2], seeds[3])

\* the batch instructions next to the single ones they stand for: sensor updates
\* and batches with out-of-range values among them, the status instructions, and
\* the clock
NextBatch ==
    \/ ClockStep
    \/ Confirm
    \/ SensorStep(ClockSensorSeeds, {TopReading} \cup OutOfRangeReadings, BatchReadings)
    \/ \E caller \in Callers : \E seeds \in ClockContractSeeds[caller] :
           InitializeContract(caller, seeds[1], seeds[2], seeds[3])
    \/ \E caller \in Callers : \E addr \in DOMAIN contracts, is_active \in BOOLEAN :
           UpdateContractStatus(addr, caller, is_active)
    \/ \E caller \in Callers : \E addrs \in ContractSlots,
             statuses \in Lists(BOOLEAN, MaxContractBatch, TRUE) :
           BatchContractStatusUpdate(addrs, caller, statuses)

\* the values at the bounds of validate_sensor_data, and the values with one field
\* one step or one whole unit outside its bound (aqi, a u16, has no value below 0)
BoundReadings ==
    LET low == ZeroReading
        high == TopReading
        mid == LowReading
    IN  {low, high, mid}
            \cup {[high EXCEPT !.aqi = MaxAqi + 1]}
            \cup UNION {{[low EXCEPT !.pm25 = -e], [high EXCEPT !.pm25 = F(MaxPm) + e],
                         [low EXCEPT !.pm10 = -e], [mid EXCEPT !.pm10 = F(MaxPm) + e],
                         [mid EXCEPT !.co2 = -e], [high EXCEPT !.co2 = F(MaxCo2) + e],
                         [low EXCEPT !.humidity = -e],
                         [high EXCEPT !.humidity = F(MaxHumidity) + e],
                         [low EXCEPT !.temperature = F(MinTemperature) - e],
                         [high EXCEPT !.temperature = F(MaxTemperature) + e]} : e \in {1, Unit}}
            \cup {[high EXCEPT !.pm10 = F(MaxPm) + 1, !.temperature = F(MaxTemperature) + 1]}

\* one sensor, updated by either identity with the values around the bounds
NextValidate ==
    \/ ClockStep
    \/ Confirm
    \/ \E caller \in Callers : InitializeAirQuality(caller, Str(1, "a"), Str(1, "s"))
    \/ \E caller \in Callers : \E addr \in DOMAIN sensors, d \in BoundReadings :
           UpdateAirQuality(addr, caller, d)

\* the tiers of calculate_update_priority per argument, as <<threshold, score>>
PriorityTiers ==
    << {<<F(10), 100>>, <<F(5), 50>>, <<F(2), 20>>},
       {<<F(15), 80>>, <<F(10), 40>>, <<F(5), 16>>},
       {<<F(20), 60>>, <<F(15), 30>>, <<F(10), 12>>},
       {<<F(100), 40>>, <<F(50), 20>>, <<F(25), 8>>},
       {<<F(20), 20>>, <<F(10), 10>>, <<F(5), 4>>},
       {<<F(10), 30>>, <<F(5), 15>>, <<F(2), 6>>},
       {<<DaySeconds, 100>>, <<43200, 50>>, <<21600, 25>>} >>

\* the values of argument i at and one step above each threshold, zero, and one
\* step below zero
PriorityValues(i) == {0, -1} \cup UNION {{t[1], t[1] + 1} : t \in PriorityTiers[i]}

\* the arguments of calculate_update_priority: one argument varied over its values,
\* the others all zero, all just above their lowest tier, or all above their top tier
PriorityInputs ==
    LET bases == {[i \in 1..7 |-> 0],
                  [i \in 1..7 |-> (CHOOSE t \in PriorityTiers[i] :
                                       \A u \in PriorityTiers[i] : t[1] <= u[1])[1] + 1],
                  [i \in 1..7 |-> (CHOOSE t \in PriorityTiers[i] :
                                       \A u \in PriorityTiers[i] : t[1] >= u[1])[1] + 1]}
    IN  UNION {{[b EXCEPT ![i] = v] : v \in PriorityValues(i)} : b \in bases, i \in 1..7}

\* the clocks at and one second beyond the time tiers
PriorityClocks == {0} \cup UNION {{t[1], t[1] + 1} : t \in PriorityTiers[7]}

MinimumScores == {0, 1, 4, 6, 20, 100, 101, 430, 431}

\* the new values of should_update: the old ones with one field moved up or down
\* to or one step beyond a threshold (aqi in whole numbers, not below 0), and the
\* old ones with every field moved beyond its top tier
PriorityProposals(acct) ==
    LET r == ReadingOf(acct)
        field == <<"aqi", "pm25", "pm10", "co2", "humidity", "temperature">>
        steps(i) == IF i = 1 THEN {2, 3, 5, 6, 10, 11} ELSE PriorityValues(i) \ {-1}
    IN  {r}
            \cup UNION {UNION {{[r EXCEPT ![field[i]] = @ + e], [r EXCEPT ![field[i]] = @ - e]} :
                                  e \in steps(i)} : i \in 2..6}
            \cup UNION {{[r EXCEPT !.aqi = @ + e]} \cup
                            (IF r.aqi >= e THEN {[r EXCEPT !.aqi = @ - e]} ELSE {}) :
                        e \in steps(1)}
            \cup {[aqi |-> r.aqi + 11, pm25 |-> r.pm25 - F(16), pm10 |-> r.pm10 + F(21),
                   co2 |-> r.co2 - F(101), humidity |-> r.humidity + F(21),
                   temperature |-> r.temperature - F(11)]}

\* the arguments of meets_percentage_threshold: whole numbers, new_value at the
\* distances from old_value listed
PercentOlds == {0, 1, 3, 100, -100}
PercentDeltas == {0, 1, 3, 5, 10, 33, 52, 53, 54, 59, 100}
PercentThresholds == {0, 5, 10, 33, 53, 59, 100}

MeetsPercentageThreshold(old_value, new_value, threshold) ==
    /\ Idle
    /\ receipt' = [op |-> "meets_percentage_threshold",
                   args |-> <<old_value, new_value, threshold>>,
                   result |-> meets_percentage_threshold(old_value, new_value, threshold)]
    /\ UNCHANGED <<sensors, contracts, now>>

CalculateUpdatePriority(x) ==
    /\ Idle
    /\ receipt' = [op |-> "calculate_update_priority", args |-> x,
                   result |-> calculate_update_priority(x[1], x[2], x[3], x[4], x[5], x[6],
                                                        x[7])]
    /\ UNCHANGED <<sensors, contracts, now>>

\* should_update on the values and updated_at of a sensor account
ShouldUpdate(addr, new, minimum_score) ==
    /\ Idle
    /\ receipt' = [op |-> "should_update", accounts |-> <<addr>>,
                   args |-> <<new, minimum_score>>, clock |-> now, sensors |-> sensors,
                   result |-> should_update(ReadingOf(sensors[addr]), new,
                                            sensors[addr].updated_at, minimum_score, now)]
    /\ UNCHANGED <<sensors, contracts, now>>

\* a sensor account with stored values and a clock, as should_update finds them
InitPriority ==
    /\ \E d \in GateStored :
           sensors = (SensorAddr(Str(1, "a"), Str(1, "s")) :>
                         update_data(InitializeAirQuality_process(
                                         "alice", Str(1, "a"), Str(1, "s"), 0).acct,
                                     d, 0).acct)
    /\ contracts = <<>>
    /\ now \in PriorityClocks
    /\ receipt = NoReceipt

NextPriority ==
    \/ Confirm
    \/ \E x \in PriorityInputs : CalculateUpdatePriority(x)
    \/ \E addr \in DOMAIN sensors : \E new \in PriorityProposals(sensors[addr]) :
           \E minimum_score \in MinimumScores : ShouldUpdate(addr, new, minimum_score)
    \/ \E old_value \in PercentOlds, delta \in PercentDeltas, threshold \in PercentThresholds :
           \/ MeetsPercentageThreshold(old_value, old_value + delta, threshold)
           \/ MeetsPercentageThreshold(old_value, old_value - delta, threshold)

Spec == Init /\ [][Next]_vars

SpecContract == Init /\ [][NextContract]_vars

SpecLedger == Init /\ [][NextLedger]_vars

SpecClock == Init /\ [][NextClock]_vars

SpecInit == Init /\ [][NextInit]_vars

SpecValidate == Init /\ [][NextValidate]_vars

SpecBatch == Init /\ [][NextBatch]_vars

SpecPriority == InitPriority /\ [][NextPriority]_vars

SpecGate == InitGate /\ [][NextGate]_vars

----------------------------------------------------------------------------
(* Claims *)

SensorOps == {"UpdateAirQuality", "BatchUpdateAirQuality"}
ContractOps ==
    {"UpdateContractStatus", "UpdateContractDetails", "ExecuteContract",
     "BatchContractStatusUpdate"}

\* the account in slot i of the instruction of the receipt, before and after it
PreSensor(i) == receipt.sensors[receipt.accounts[i]]
PostSensor(i) == sensors[receipt.accounts[i]]
PreContract(i) == receipt.contracts[receipt.accounts[i]]
PostContract(i) == contracts[receipt.accounts[i]]

UpdateByAuthority ==
    /\ receipt.op = "UpdateAirQuality"
    /\ receipt.caller = PreSensor(1).authority

\* C1: an UpdateAirQuality by the account's authority whose values are not a
\* significant change succeeds and leaves the six metrics, updated_at and
\* update_count of the account as they were.
C1_InsignificantUpdateLeavesRecord ==
    (UpdateByAuthority /\ ~is_significant_change(PreSensor(1), receipt.args, receipt.clock))
        => /\ receipt.result = "Ok"
           /\ ReadingOf(PostSensor(1)) = ReadingOf(PreSensor(1))
           /\ PostSensor(1).updated_at = PreSensor(1).updated_at
           /\ PostSensor(1).update_count = PreSensor(1).update_count

\* an insignificant update has run whose values differ from the stored ones
C1_Witness ==
    /\ UpdateByAuthority
    /\ ~is_significant_change(PreSensor(1), receipt.args, receipt.clock)
    /\ receipt.args # ReadingOf(PreSensor(1))
    /\ receipt.result = "Ok"

\* C2: an UpdateAirQuality by the account's authority with in-range values that are
\* a significant change stores the six proposed values, sets updated_at to the
\* clock and adds exactly 1 to update_count.
C2_SignificantUpdateApplied ==
    (/\ UpdateByAuthority
     /\ validate_sensor_data(receipt.args) = "Ok"
     /\ is_significant_change(PreSensor(1), receipt.args, receipt.clock))
        => /\ receipt.result = "Ok"
           /\ ReadingOf(PostSensor(1)) = receipt.args
           /\ PostSensor(1).updated_at = receipt.clock
           /\ PostSensor(1).update_count = PreSensor(1).update_count + 1

\* a significant in-range update has been applied to an account updated before
C2_Witness ==
    /\ UpdateByAuthority
    /\ validate_sensor_data(receipt.args) = "Ok"
    /\ is_significant_change(PreSensor(1), receipt.args, receipt.clock)
    /\ PreSensor(1).update_count = 1
    /\ PostSensor(1).update_count = 2

\* the error kinds validate_sensor_data and validate_contract_data return
ValidationErrors ==
    {"InvalidAQIValue", "InvalidPM25Value", "InvalidPM10Value", "InvalidCO2Value",
     "InvalidHumidityValue", "InvalidTemperatureValue", "NameTooLong",
     "DescriptionTooLong", "ContractTypeTooLong", "InvalidInput"}

\* C3: an UpdateAirQuality by the account's authority with a value outside its range
\* fails with a validation error and leaves the account as it was, whatever the
\* account holds and whatever time has passed.
C3_OutOfRangeUpdateFails ==
    (UpdateByAuthority /\ validate_sensor_data(receipt.args) # "Ok")
        => /\ receipt.result \in ValidationErrors
           /\ PostSensor(1) = PreSensor(1)

BatchByAuthority ==
    /\ receipt.op = "BatchUpdateAirQuality"
    /\ \A i \in DOMAIN receipt.accounts : receipt.caller = PreSensor(i).authority

\* C4: a BatchUpdateAirQuality of at most 3 entries one of which has a value outside
\* its range fails, and no sensor account differs from what it was, wherever the
\* entry stands and whatever the other entries are.
C4_InvalidEntryFailsBatch ==
    (/\ BatchByAuthority
     /\ Len(receipt.args) <= MaxSensorBatch
     /\ \E i \in DOMAIN receipt.args : validate_sensor_data(receipt.args[i]) # "Ok")
        => /\ receipt.result # "Ok"
           /\ sensors = receipt.sensors

\* a batch by the authority of its accounts with more entries than the limit
BatchOverLimit ==
    \/ /\ BatchByAuthority
       /\ Len(receipt.args) > MaxSensorBatch
    \/ /\ receipt.op = "BatchContractStatusUpdate"
       /\ \A i \in DOMAIN receipt.accounts : receipt.caller = PreContract(i).authority
       /\ Len(receipt.args) > MaxContractBatch

\* C5: a BatchUpdateAirQuality of more than 3 entries and a BatchContractStatusUpdate
\* of more than 2 entries fail with an error kind of their own, which is neither a
\* validation error nor the authorization error, and no account is changed.
C5_BatchLimitErrorKind ==
    BatchOverLimit
        => /\ receipt.result \notin {"Ok", "UnauthorizedAccess"} \cup ValidationErrors
           /\ sensors = receipt.sensors
           /\ contracts = receipt.contracts

\* the entries of a batch that are a significant change of their account
AppliedEntries ==
    {i \in DOMAIN receipt.args :
        is_significant_change(PreSensor(i), receipt.args[i], receipt.clock)}

BatchInRange ==
    /\ BatchByAuthority
    /\ Len(receipt.args) <= MaxSensorBatch
    /\ \A i \in DOMAIN receipt.args : validate_sensor_data(receipt.args[i]) = "Ok"

\* C6: a BatchUpdateAirQuality whose entries are all in range succeeds; the account of
\* every entry is left as a single UpdateAirQuality with that entry leaves it (as it
\* was when the entry is not a significant change, whatever stands before or after
\* it), the accounts without an entry are as they were, and the events of the
\* applied entries are emitted in the order of the entries.
C6_BatchAppliesEntriesInOrder ==
    BatchInRange
        => /\ receipt.result = "Ok"
           /\ \A i \in DOMAIN receipt.accounts :
                  PostSensor(i) =
                      IF i \in DOMAIN receipt.args
                      THEN UpdateAirQuality_process(PreSensor(i), receipt.accounts[i],
                                                    receipt.args[i], receipt.clock).acct
                      ELSE PreSensor(i)
           /\ Len(receipt.events) = Cardinality(AppliedEntries)
           /\ \A i \in AppliedEntries :
                  receipt.events[Cardinality({j \in AppliedEntries : j <= i})] =
                      AirQualityUpdated(receipt.accounts[i], receipt.args[i], receipt.clock)

\* a batch has skipped its first entry and applied its second
C6_Witness ==
    /\ BatchInRange
    /\ Len(receipt.args) = 2
    /\ AppliedEntries = {2}
    /\ PostSensor(1) = PreSensor(1)
    /\ PostSensor(2).update_count = PreSensor(2).update_count + 1

\* the authority of the account in slot i before the instruction of the receipt
PreAuthority(i) ==
    IF receipt.op \in SensorOps THEN PreSensor(i).authority ELSE PreContract(i).authority

\* C7: an UpdateAirQuality, BatchUpdateAirQuality, UpdateContractStatus,
\* UpdateContractDetails, ExecuteContract or BatchContractStatusUpdate whose caller is
\* not the authority of one of its accounts fails with UnauthorizedAccess and leaves
\* every account as it was.
C7_ForeignCallerRejected ==
    (/\ receipt.op \in SensorOps \cup ContractOps
     /\ \E i \in DOMAIN receipt.accounts : PreAuthority(i) # receipt.caller)
        => /\ receipt.result = "UnauthorizedAccess"
           /\ sensors = receipt.sensors
           /\ contracts = receipt.contracts

\* a batch that would flip the status of its first contract, which is the caller's,
\* is rejected for its second, which is not
C7_Witness ==
    /\ receipt.op = "BatchContractStatusUpdate"
    /\ Len(receipt.args) = MaxContractBatch
    /\ PreContract(1).authority = receipt.caller
    /\ PreContract(1).is_active # receipt.args[1]
    /\ PreContract(2).authority # receipt.caller
    /\ receipt.result = "UnauthorizedAccess"

\* C8: no instruction changes the authority of an account or removes the account,
\* and an account an instruction creates has the caller of that instruction as its
\* authority; a contract's authority is the one its address is derived from.
C8_AuthorityIsInitializer ==
    /\ \A a \in DOMAIN contracts : contracts[a].authority = a[2]
    /\ ~Idle =>
           /\ \A a \in DOMAIN receipt.sensors :
                  a \in DOMAIN sensors /\ sensors[a].authority = receipt.sensors[a].authority
           /\ \A a \in DOMAIN receipt.contracts :
                  /\ a \in DOMAIN contracts
                  /\ contracts[a].authority = receipt.contracts[a].authority
           /\ \A a \in DOMAIN sensors \ DOMAIN receipt.sensors :
                  receipt.op = "InitializeAirQuality" /\ sensors[a].authority = receipt.caller
           /\ \A a \in DOMAIN contracts \ DOMAIN receipt.contracts :
                  receipt.op = "InitializeContract" /\ contracts[a].authority = receipt.caller

\* an account of one identity exists, and the other identity's attempt to
\* initialize the same address has failed
C8_Witness ==
    /\ receipt.op = "InitializeAirQuality"
    /\ receipt.result = "AccountAlreadyInUse"
    /\ PostSensor(1).authority # receipt.caller
    /\ PostSensor(1).update_count > 0

SensorInBounds(s) ==
    /\ s.aqi \in 0..MaxAqi
    /\ s.pm25 \in 0..F(MaxPm)
    /\ s.pm10 \in 0..F(MaxPm)
    /\ s.co2 \in 0..F(MaxCo2)
    /\ s.humidity \in 0..F(MaxHumidity)
    /\ s.temperature \in F(MinTemperature)..F(MaxTemperature)
    /\ Len(s.location) <= MaxLocationLen
    /\ Len(s.sensor_id) <= MaxSensorIdLen

ContractInBounds(c) ==
    /\ Len(c.name) \in 1..MaxNameLen
    /\ Len(c.description) <= MaxDescriptionLen
    /\ Len(c.contract_type) \in 1..MaxContractTypeLen

\* C9: in every reachable state, after failed instructions too, every sensor account
\* has aqi in 0..500, pm25 and pm10 in 0..1000, co2 in 0..10000, humidity in 0..100,
\* temperature in -50..100, a location of at most 50 and a sensor id of at most 30
\* characters, and every contract account has a name of 1..50, a description of at
\* most 200 and a contract type of 1..30 characters.
C9_FieldsInBounds ==
    /\ \A a \in DOMAIN sensors : SensorInBounds(sensors[a])
    /\ \A a \in DOMAIN contracts : ContractInBounds(contracts[a])

\* a sensor holds the upper bounds, a contract a name of the greatest length, and an
\* update with a humidity above its bound has been rejected
C9_Witness ==
    /\ \E a \in DOMAIN sensors : ReadingOf(sensors[a]) = TopReading
    /\ \E a \in DOMAIN contracts : Len(contracts[a].name) = MaxNameLen
    /\ receipt.op = "UpdateAirQuality"
    /\ receipt.result = "InvalidHumidityValue"

\* the number of events of the given type the instruction of the receipt emitted
\* for account a
Emitted(type, a) ==
    Cardinality({k \in DOMAIN receipt.events :
                    receipt.events[k].type = type /\ receipt.events[k].account = a})

\* C10: an instruction changes update_count, version and execution_count of an
\* account only by adding 1, and only when it commits and applies the matching
\* mutation to that account (it emits AirQualityUpdated, ContractUpdated or
\* ContractExecuted for it); an instruction that fails or skips changes none of
\* them; a new account starts with update_count 0, version 1, execution_count 0.
C10_CountersStepByOne ==
    ~Idle =>
        /\ \A a \in DOMAIN receipt.sensors :
               /\ Emitted("AirQualityUpdated", a) \in {0, 1}
               /\ sensors[a].update_count =
                      receipt.sensors[a].update_count + Emitted("AirQualityUpdated", a)
        /\ \A a \in DOMAIN receipt.contracts :
               /\ Emitted("ContractUpdated", a) \in {0, 1}
               /\ Emitted("ContractExecuted", a) \in {0, 1}
               /\ contracts[a].version =
                      receipt.contracts[a].version + Emitted("ContractUpdated", a)
               /\ contracts[a].execution_count =
                      receipt.contracts[a].execution_count + Emitted("ContractExecuted", a)
        /\ \A a \in DOMAIN sensors \ DOMAIN receipt.sensors : sensors[a].update_count = 0
        /\ \A a \in DOMAIN contracts \ DOMAIN receipt.contracts :
               contracts[a].version = 1 /\ contracts[a].execution_count = 0

\* a details update has been applied to a contract executed before, and raised its
\* version
C10_Witness ==
    /\ receipt.op = "UpdateContractDetails"
    /\ receipt.result = "Ok"
    /\ PreContract(1).execution_count = 1
    /\ PostContract(1).version = PreContract(1).version + 1
    /\ PostContract(1).name # PreContract(1).name

\* a is the account of one of the slots of the instruction of the receipt
InSlots(a) == \E i \in DOMAIN receipt.accounts : receipt.accounts[i] = a

\* C11: with a clock that never goes back, no instruction lowers the updated_at of an
\* account, no updated_at is ahead of the clock, and an instruction changes the
\* updated_at of an account only when it commits and applies a mutation to it (a
\* sensor update that raises update_count, a flip of is_active, a details update
\* that raises version, an execute that raises execution_count), setting it to the
\* clock; an instruction that skips or fails leaves every updated_at as it was.
C11_UpdatedAtMonotone ==
    /\ \A a \in DOMAIN sensors : sensors[a].updated_at <= now
    /\ \A a \in DOMAIN contracts : contracts[a].updated_at <= now
    /\ ~Idle =>
        /\ \A a \in DOMAIN receipt.sensors :
               /\ sensors[a].updated_at >= receipt.sensors[a].updated_at
               /\ sensors[a].updated_at # receipt.sensors[a].updated_at
                      => /\ receipt.result = "Ok"
                         /\ receipt.op \in SensorOps
                         /\ InSlots(a)
                         /\ sensors[a].update_count = receipt.sensors[a].update_count + 1
                         /\ sensors[a].updated_at = receipt.clock
        /\ \A a \in DOMAIN receipt.contracts :
               /\ contracts[a].updated_at >= receipt.contracts[a].updated_at
               /\ contracts[a].updated_at # receipt.contracts[a].updated_at
                      => /\ receipt.result = "Ok"
                         /\ receipt.op \in ContractOps
                         /\ InSlots(a)
                         /\ \/ contracts[a].is_active # receipt.contracts[a].is_active
                            \/ contracts[a].version = receipt.contracts[a].version + 1
                            \/ contracts[a].execution_count =
                                   receipt.contracts[a].execution_count + 1
                         /\ contracts[a].updated_at = receipt.clock

\* after the clock has advanced, a status update with the stored flag has left
\* updated_at behind the clock, on a contract whose updated_at an execute had set
C11_Witness ==
    /\ receipt.op = "UpdateContractStatus"
    /\ receipt.result = "Ok"
    /\ receipt.caller = PreContract(1).authority
    /\ receipt.args = PreContract(1).is_active
    /\ PreContract(1).execution_count = 1
    /\ PostContract(1).updated_at = PreContract(1).updated_at
    /\ PostContract(1).updated_at < receipt.clock

\* C12: an UpdateAirQuality by the account's authority with in-range values, made
\* more than 86400 seconds after the account's updated_at, is applied whatever the
\* values are: it stores them, sets updated_at to the clock, adds 1 to update_count
\* and emits AirQualityUpdated.
C12_StaleUpdateApplied ==
    (/\ UpdateByAuthority
     /\ validate_sensor_data(receipt.args) = "Ok"
     /\ receipt.clock - PreSensor(1).updated_at > DaySeconds)
        => /\ receipt.result = "Ok"
           /\ ReadingOf(PostSensor(1)) = receipt.args
           /\ PostSensor(1).updated_at = receipt.clock
           /\ PostSensor(1).update_count = PreSensor(1).update_count + 1
           /\ receipt.events =
                  <<AirQualityUpdated(receipt.accounts[1], receipt.args, receipt.clock)>>

\* the values the account already holds have been written again after 86401 seconds
C12_Witness ==
    /\ UpdateByAuthority
    /\ receipt.args = ReadingOf(PreSensor(1))
    /\ receipt.clock - PreSensor(1).updated_at = DaySeconds + 1
    /\ PostSensor(1).update_count = PreSensor(1).update_count + 1
    /\ PostSensor(1).updated_at = receipt.clock

\* C13: whatever a sensor account holds, is_significant_change is false for the six
\* values the account holds at every clock less than 24 hours after its updated_at.
C13_SameValuesInsignificant ==
    \A a \in DOMAIN sensors : \A t \in GateClocks :
        t - sensors[a].updated_at < DaySeconds
            => ~is_significant_change(sensors[a], ReadingOf(sensors[a]), t)

\* an update with the values the account holds, one second short of 24 hours after
\* its updated_at, has been skipped
C13_Witness ==
    /\ UpdateByAuthority
    /\ ReadingOf(PreSensor(1)) = LowReading
    /\ receipt.args = LowReading
    /\ receipt.clock - PreSensor(1).updated_at = DaySeconds - 1
    /\ receipt.result = "Ok"
    /\ receipt.events = <<>>
    /\ PostSensor(1) = PreSensor(1)

Metrics == {"aqi", "pm25", "pm10", "co2", "humidity", "temperature"}

\* the proposed values of an UpdateAirQuality differ from the stored ones in one
\* field, less than 24 hours after updated_at
SingleFieldUpdate ==
    /\ receipt.op = "UpdateAirQuality"
    /\ Cardinality({f \in Metrics : receipt.args[f] # PreSensor(1)[f]}) = 1
    /\ receipt.clock - PreSensor(1).updated_at < DaySeconds

\* the change of field f of the update, in steps
Change(f) == Abs(receipt.args[f] - PreSensor(1)[f])

\* C14 as stated: with the other five fields equal and less than 24 hours elapsed,
\* is_significant_change is true when AQI changes by more than 5% of max(stored, 1),
\* PM2.5 or PM10 by more than 10% of the stored value, CO2 by more than 5% of the
\* stored value, humidity by more than 5 units or temperature by more than 2 units.
C14_ThresholdOfStoredValue ==
    (/\ SingleFieldUpdate
     /\ \/ 20 * Change("aqi") > Max(PreSensor(1).aqi, 1)
        \/ 10 * Change("pm25") > PreSensor(1).pm25
        \/ 10 * Change("pm10") > PreSensor(1).pm10
        \/ 20 * Change("co2") > PreSensor(1).co2
        \/ Change("humidity") > 5 * Unit
        \/ Change("temperature") > 2 * Unit)
        => is_significant_change(PreSensor(1), receipt.args, receipt.clock)

\* C14: with the other five fields equal and less than 24 hours elapsed,
\* is_significant_change is true when AQI changes by more than 5% of max(stored, 1),
\* PM2.5 or PM10 by more than 10% of max(stored, 1.0), CO2 by more than 5% of
\* max(stored, 1.0), humidity by more than 5 units or temperature by more than 2
\* units; an AQI change of at most 5% of max(stored, 1) alone is not significant
\* (50 to 52 is skipped, 50 to 60 is applied).
C14_ThresholdOfFlooredValue ==
    /\ (/\ SingleFieldUpdate
        /\ \/ 20 * Change("aqi") > Max(PreSensor(1).aqi, 1)
           \/ 10 * Change("pm25") > Max(PreSensor(1).pm25, Unit)
           \/ 10 * Change("pm10") > Max(PreSensor(1).pm10, Unit)
           \/ 20 * Change("co2") > Max(PreSensor(1).co2, Unit)
           \/ Change("humidity") > 5 * Unit
           \/ Change("temperature") > 2 * Unit)
           => is_significant_change(PreSensor(1), receipt.args, receipt.clock)
    /\ (/\ SingleFieldUpdate
        /\ Change("aqi") > 0
        /\ 20 * Change("aqi") <= Max(PreSensor(1).aqi, 1))
           => ~is_significant_change(PreSensor(1), receipt.args, receipt.clock)
    /\ (/\ UpdateByAuthority
        /\ SingleFieldUpdate
        /\ PreSensor(1).aqi = 50
        /\ receipt.args.aqi \in {52, 60})
           => /\ receipt.result = "Ok"
              /\ PostSensor(1).update_count =
                     PreSensor(1).update_count + (IF receipt.args.aqi = 60 THEN 1 ELSE 0)

\* an update of AQI alone from 50 to 60, 23 hours 59 minutes 59 seconds after the
\* last one, has been applied
C14_Witness ==
    /\ UpdateByAuthority
    /\ SingleFieldUpdate
    /\ receipt.clock - PreSensor(1).updated_at = DaySeconds - 1
    /\ PreSensor(1).aqi = 50
    /\ receipt.args.aqi = 60
    /\ PostSensor(1).aqi = 60
    /\ PostSensor(1).update_count = PreSensor(1).update_count + 1

ExecuteByAuthority ==
    /\ receipt.op = "ExecuteContract"
    /\ receipt.caller = PreContract(1).authority

\* C15: an ExecuteContract by the authority of an active contract succeeds, adds 1 to
\* execution_count and sets updated_at to the clock, leaving the other fields; on an
\* inactive contract it fails with ContractInactive and leaves the account as it was;
\* no other instruction changes an execution_count, so the count is the number of
\* successful executes (two from 0 give 2) and does not move while inactive.
C15_ExecuteCountsWhileActive ==
    /\ (ExecuteByAuthority /\ PreContract(1).is_active)
           => /\ receipt.result = "Ok"
              /\ PostContract(1).execution_count = PreContract(1).execution_count + 1
              /\ PostContract(1).updated_at = receipt.clock
              /\ PostContract(1) = [PreContract(1) EXCEPT
                                       !.execution_count = PostContract(1).execution_count,
                                       !.updated_at = PostContract(1).updated_at]
    /\ (ExecuteByAuthority /\ ~PreContract(1).is_active)
           => /\ receipt.result = "ContractInactive"
              /\ PostContract(1) = PreContract(1)
    /\ ~Idle =>
           \A a \in DOMAIN receipt.contracts :
               contracts[a].execution_count # receipt.contracts[a].execution_count
                   => /\ receipt.op = "ExecuteContract"
                      /\ receipt.accounts = <<a>>
                      /\ receipt.result = "Ok"
                      /\ receipt.contracts[a].is_active

\* the second execute of a contract, after the clock has advanced, has left
\* execution_count 2
C15_Witness ==
    /\ ExecuteByAuthority
    /\ PreContract(1).is_active
    /\ PreContract(1).execution_count = 1
    /\ PreContract(1).updated_at < receipt.clock
    /\ PostContract(1).execution_count = 2
    /\ PostContract(1).updated_at = receipt.clock

StatusByAuthority ==
    /\ receipt.op = "UpdateContractStatus"
    /\ receipt.caller = PreContract(1).authority

\* C16: an UpdateContractStatus by the authority with the flag the contract holds
\* succeeds, leaves the whole account as it was and emits nothing; with the other
\* flag it stores the flag and sets updated_at to the clock, leaving name,
\* description, contract_type, version and execution_count.
C16_StatusFlipOnly ==
    /\ (StatusByAuthority /\ receipt.args = PreContract(1).is_active)
           => /\ receipt.result = "Ok"
              /\ PostContract(1) = PreContract(1)
              /\ receipt.events = <<>>
    /\ (StatusByAuthority /\ receipt.args # PreContract(1).is_active)
           => /\ receipt.result = "Ok"
              /\ PostContract(1).is_active = receipt.args
              /\ PostContract(1).updated_at = receipt.clock
              /\ PostContract(1).name = PreContract(1).name
              /\ PostContract(1).description = PreContract(1).description
              /\ PostContract(1).contract_type = PreContract(1).contract_type
              /\ PostContract(1).version = PreContract(1).version
              /\ PostContract(1).execution_count = PreContract(1).execution_count

\* a contract that has been executed once is deactivated after the clock has advanced
C16_Witness ==
    /\ StatusByAuthority
    /\ PreContract(1).is_active
    /\ receipt.args = FALSE
    /\ PreContract(1).execution_count = 1
    /\ PreContract(1).updated_at < receipt.clock
    /\ ~PostContract(1).is_active
    /\ PostContract(1).updated_at = receipt.clock
    /\ PostContract(1).execution_count = 1

DetailsByAuthority ==
    /\ receipt.op = "UpdateContractDetails"
    /\ receipt.caller = PreContract(1).authority

\* the stored name, description and contract_type, in the order of the arguments
Details(c) == <<c.name, c.description, c.contract_type>>

\* argument i of the details update is supplied and differs from the stored field
Differs(i) == receipt.args[i].some /\ receipt.args[i].val # Details(PreContract(1))[i]

\* argument i of the details update is supplied and outside the bounds of its field
OutOfBounds(i) ==
    /\ receipt.args[i].some
    /\ \/ i = 1 /\ (Len(receipt.args[1].val) > 50 \/ Len(receipt.args[1].val) = 0)
       \/ i = 2 /\ Len(receipt.args[2].val) > 200
       \/ i = 3 /\ (Len(receipt.args[3].val) > 30 \/ Len(receipt.args[3].val) = 0)

\* C17: an UpdateContractDetails by the authority in which every argument is absent
\* or equal to the stored field succeeds, leaves the account as it was (version and
\* updated_at included) and emits no ContractUpdated.
C17_EqualDetailsAreNoOp ==
    (DetailsByAuthority /\ \A i \in 1..3 : ~Differs(i))
        => /\ receipt.result = "Ok"
           /\ PostContract(1) = PreContract(1)
           /\ receipt.events = <<>>

\* the name an earlier update stored is supplied again, after the clock has advanced
C17_Witness ==
    /\ DetailsByAuthority
    /\ receipt.args[1].some
    /\ receipt.args[1].val = PreContract(1).name
    /\ PreContract(1).version = 2
    /\ PreContract(1).updated_at < receipt.clock
    /\ receipt.result = "Ok"
    /\ PostContract(1).version = 2
    /\ PostContract(1).updated_at = PreContract(1).updated_at

\* C18: an UpdateContractDetails by the authority in which at least one supplied field
\* differs from the stored one and every supplied field is within bounds succeeds,
\* replaces exactly the differing supplied fields, sets updated_at to the clock and
\* adds exactly 1 to version whether one, two or three fields differ; is_active and
\* execution_count stay.
C18_DetailsUpdateOneVersion ==
    (/\ DetailsByAuthority
     /\ \E i \in 1..3 : Differs(i)
     /\ \A i \in 1..3 : ~OutOfBounds(i))
        => /\ receipt.result = "Ok"
           /\ \A i \in 1..3 :
                  Details(PostContract(1))[i] =
                      IF Differs(i) THEN receipt.args[i].val ELSE Details(PreContract(1))[i]
           /\ PostContract(1).updated_at = receipt.clock
           /\ PostContract(1).version = PreContract(1).version + 1
           /\ PostContract(1).is_active = PreContract(1).is_active
           /\ PostContract(1).execution_count = PreContract(1).execution_count

\* name, description and contract_type of an executed contract have been replaced in
\* one update, after the clock has advanced, and the version is 2
C18_Witness ==
    /\ DetailsByAuthority
    /\ \A i \in 1..3 : Differs(i)
    /\ PreContract(1).version = 1
    /\ PreContract(1).execution_count = 1
    /\ PreContract(1).updated_at < receipt.clock
    /\ Details(PostContract(1)) = <<receipt.args[1].val, receipt.args[2].val, receipt.args[3].val>>
    /\ PostContract(1).version = 2
    /\ PostContract(1).updated_at = receipt.clock

\* C19: an UpdateContractDetails by the authority in which a supplied field is outside
\* its bounds fails with a validation error and applies none of the supplied fields:
\* the account is as it was.
C19_InvalidDetailFailsWhole ==
    (DetailsByAuthority /\ \E i \in 1..3 : OutOfBounds(i))
        => /\ receipt.result \in ValidationErrors
           /\ PostContract(1) = PreContract(1)
           /\ receipt.events = <<>>

\* a new name within bounds came with a description of 201 bytes: the update failed
\* and the name is the old one
C19_Witness ==
    /\ DetailsByAuthority
    /\ Differs(1)
    /\ ~OutOfBounds(1)
    /\ receipt.args[2].some
    /\ Len(receipt.args[2].val) = 201
    /\ receipt.result = "DescriptionTooLong"
    /\ PostContract(1).name = PreContract(1).name
    /\ PostContract(1).name # receipt.args[1].val

\* the events of the receipt about sensor account a, about contract account a
SensorEvents(a) ==
    {k \in DOMAIN receipt.events :
        /\ receipt.events[k].type \in {"AirQualityInitialized", "AirQualityUpdated"}
        /\ receipt.events[k].account = a}
ContractEvents(a) ==
    {k \in DOMAIN receipt.events :
        /\ receipt.events[k].type \in {"ContractInitialized", "ContractStatusUpdated",
                                       "ContractUpdated", "ContractExecuted"}
        /\ receipt.events[k].account = a}

\* the instruction of the receipt created account a of store, or changed it
Mutated(pre, post, a) == a \notin DOMAIN pre \/ post[a] # pre[a]

\* one event for every account the instruction created or changed, none for the
\* others, none from a failed instruction
OneEventPerMutation ==
    /\ receipt.result # "Ok" =>
           /\ receipt.events = <<>>
           /\ sensors = receipt.sensors
           /\ contracts = receipt.contracts
    /\ \A a \in DOMAIN sensors :
           Cardinality(SensorEvents(a)) = IF Mutated(receipt.sensors, sensors, a) THEN 1 ELSE 0
    /\ \A a \in DOMAIN contracts :
           Cardinality(ContractEvents(a)) =
               IF Mutated(receipt.contracts, contracts, a) THEN 1 ELSE 0
    /\ \A k \in DOMAIN receipt.events :
           \/ \E a \in DOMAIN sensors : k \in SensorEvents(a)
           \/ \E a \in DOMAIN contracts : k \in ContractEvents(a)

\* every event carries the values its account holds after the instruction
EventsCarryPostValues ==
    \A k \in DOMAIN receipt.events :
        LET e == receipt.events[k]
        IN  /\ e.type = "AirQualityInitialized" =>
                   /\ e.location = sensors[e.account].location
                   /\ e.sensor_id = sensors[e.account].sensor_id
                   /\ e.authority = sensors[e.account].authority
            /\ e.type = "AirQualityUpdated" =>
                   /\ \A f \in Metrics : e[f] = sensors[e.account][f]
                   /\ e.timestamp = sensors[e.account].updated_at
                   /\ e.timestamp = receipt.clock
            /\ e.type = "ContractInitialized" =>
                   /\ Details(contracts[e.account]) = <<e.name, e.description, e.contract_type>>
                   /\ e.authority = contracts[e.account].authority
            /\ e.type = "ContractStatusUpdated" =>
                   /\ e.is_active = contracts[e.account].is_active
                   /\ e.timestamp = contracts[e.account].updated_at
                   /\ e.timestamp = receipt.clock
            /\ e.type = "ContractUpdated" =>
                   /\ Details(contracts[e.account]) = <<e.name, e.description, e.contract_type>>
                   /\ e.version = contracts[e.account].version
                   /\ e.version = receipt.contracts[e.account].version + 1
                   /\ e.timestamp = contracts[e.account].updated_at
                   /\ e.timestamp = receipt.clock
            /\ e.type = "ContractExecuted" =>
                   /\ e.execution_count = contracts[e.account].execution_count
                   /\ e.timestamp = contracts[e.account].updated_at
                   /\ e.timestamp = receipt.clock

\* the AirQualityUpdated events of the instruction are as many as it added to the
\* update_count of each sensor
UpdatedEventsCounted ==
    \A a \in DOMAIN receipt.sensors :
        sensors[a].update_count =
            receipt.sensors[a].update_count + Emitted("AirQualityUpdated", a)

\* C20 as stated: one event for each applied and committed mutation of an account and
\* none for a skipped or failed one; the event carries the values the account holds
\* after the mutation and its new updated_at, together with the new version (details
\* update) or the new update_count (sensor update); the AirQualityUpdated events of
\* a sensor are as many as its update_count.
C20_SensorEventCarriesCount ==
    ~Idle =>
        /\ OneEventPerMutation
        /\ EventsCarryPostValues
        /\ UpdatedEventsCounted
        /\ \A k \in DOMAIN receipt.events :
               receipt.events[k].type = "AirQualityUpdated" =>
                   /\ "update_count" \in DOMAIN receipt.events[k]
                   /\ receipt.events[k].update_count =
                          sensors[receipt.events[k].account].update_count

\* C20: one event for each applied and committed mutation of an account and none for
\* a skipped or failed one; the event carries the values the account holds after the
\* mutation and its new updated_at, together with the new version (details update);
\* the event of a sensor update carries the six metrics and the new updated_at and
\* no update_count; the AirQualityUpdated events of a sensor are as many as its
\* update_count.
C20_OneEventPerAppliedMutation ==
    ~Idle =>
        /\ OneEventPerMutation
        /\ EventsCarryPostValues
        /\ UpdatedEventsCounted
        /\ \A k \in DOMAIN receipt.events :
               receipt.events[k].type = "AirQualityUpdated" =>
                   DOMAIN receipt.events[k] =
                       {"type", "account", "timestamp"} \cup Metrics

\* a batch of sensor updates after the clock has advanced in which one entry was
\* skipped and a later one applied: one event, for the applied one
C20_Witness ==
    /\ receipt.op = "BatchUpdateAirQuality"
    /\ receipt.result = "Ok"
    /\ Len(receipt.args) >= 2
    /\ PostSensor(1) = PreSensor(1)
    /\ PostSensor(2).update_count = PreSensor(2).update_count + 1
    /\ PreSensor(2).updated_at < receipt.clock
    /\ Len(receipt.events) = 1
    /\ receipt.events[1].account = receipt.accounts[2]
    /\ receipt.events[1].timestamp = receipt.clock

\* C21: an UpdateAirQuality or UpdateContractDetails by the authority that is skipped
\* returns success, and the value it returns differs from the value the handler
\* returns for the same account when the update is applied.
C21_SkippedResultDiffers ==
    /\ (UpdateByAuthority /\ PostSensor(1) = PreSensor(1) /\ receipt.result \notin ValidationErrors)
           => /\ receipt.result = "Ok"
              /\ \A d \in InRangeReadings :
                     LET r == UpdateAirQuality_process(PreSensor(1), receipt.accounts[1], d,
                                                       receipt.clock)
                     IN  r.acct # PreSensor(1) => r.result # receipt.result
    /\ (DetailsByAuthority /\ \A i \in 1..3 : ~Differs(i))
           => /\ receipt.result = "Ok"
              /\ \A name \in {None, Some(Str(1, "n"))} :
                     LET r == UpdateContractDetails_process(PreContract(1), receipt.accounts[1],
                                                            name, None, None, receipt.clock)
                     IN  r.acct # PreContract(1) => r.result # receipt.result

\* C22: an InitializeAirQuality for a (location, sensor_id) that has an account, or
\* an InitializeContract for a (name, authority) that has one, fails and leaves every
\* account as it was; no instruction removes an account, and an instruction adds at
\* most one, at the address of its seeds.
C22_InitializedOncePerKey ==
    ~Idle =>
        /\ (receipt.op = "InitializeAirQuality"
                /\ SensorAddr(receipt.args[1], receipt.args[2]) \in DOMAIN receipt.sensors)
               => /\ receipt.result \notin {"Ok"}
                  /\ sensors = receipt.sensors
                  /\ receipt.events = <<>>
        /\ (receipt.op = "InitializeContract"
                /\ ContractAddr(receipt.args[1], receipt.caller) \in DOMAIN receipt.contracts)
               => /\ receipt.result \notin {"Ok"}
                  /\ contracts = receipt.contracts
                  /\ receipt.events = <<>>
        /\ DOMAIN receipt.sensors \subseteq DOMAIN sensors
        /\ DOMAIN receipt.contracts \subseteq DOMAIN contracts
        /\ DOMAIN sensors \ DOMAIN receipt.sensors \subseteq
               IF receipt.op = "InitializeAirQuality"
               THEN {SensorAddr(receipt.args[1], receipt.args[2])} ELSE {}
        /\ DOMAIN contracts \ DOMAIN receipt.contracts \subseteq
               IF receipt.op = "InitializeContract"
               THEN {ContractAddr(receipt.args[1], receipt.caller)} ELSE {}

\* the authority of a contract that has been executed asks to initialize it again
\* after the clock has advanced: the request fails and the contract keeps its
\* execution_count and timestamps
C22_Witness ==
    /\ receipt.op = "InitializeContract"
    /\ receipt.accounts[1] \in DOMAIN receipt.contracts
    /\ receipt.caller = PreContract(1).authority
    /\ PreContract(1).execution_count = 1
    /\ PreContract(1).created_at < receipt.clock
    /\ receipt.result = "AccountAlreadyInUse"
    /\ PostContract(1) = PreContract(1)

\* C23: a successful InitializeContract leaves the contract with is_active true,
\* version 1, execution_count 0 and created_at = updated_at = the clock; a successful
\* InitializeAirQuality leaves the sensor with update_count 0, created_at =
\* updated_at = the clock and the metrics 0, 0.0, 0.0, 400.0, 50.0, 20.0; an
\* initialize with a location over 50 bytes, a sensor_id over 30 bytes, a name over
\* 50 bytes, an empty name or an empty contract_type fails and creates no account.
C23_InitialValues ==
    ~Idle =>
        /\ (receipt.op = "InitializeContract" /\ receipt.result = "Ok")
               => /\ receipt.accounts[1] \notin DOMAIN receipt.contracts
                  /\ PostContract(1).is_active
                  /\ PostContract(1).version = 1
                  /\ PostContract(1).execution_count = 0
                  /\ PostContract(1).created_at = receipt.clock
                  /\ PostContract(1).updated_at = receipt.clock
                  /\ Details(PostContract(1)) = receipt.args
                  /\ PostContract(1).authority = receipt.caller
        /\ (receipt.op = "InitializeAirQuality" /\ receipt.result = "Ok")
               => /\ receipt.accounts[1] \notin DOMAIN receipt.sensors
                  /\ PostSensor(1).update_count = 0
                  /\ PostSensor(1).created_at = receipt.clock
                  /\ PostSensor(1).updated_at = receipt.clock
                  /\ PostSensor(1).aqi = 0
                  /\ PostSensor(1).pm25 = 0
                  /\ PostSensor(1).pm10 = 0
                  /\ PostSensor(1).co2 = 400 * Unit
                  /\ PostSensor(1).humidity = 50 * Unit
                  /\ PostSensor(1).temperature = 20 * Unit
                  /\ <<PostSensor(1).location, PostSensor(1).sensor_id>> = receipt.args
                  /\ PostSensor(1).authority = receipt.caller
        /\ (receipt.op = "InitializeAirQuality"
                /\ (Len(receipt.args[1]) > 50 \/ Len(receipt.args[2]) > 30))
               => /\ receipt.result \in ValidationErrors
                  /\ sensors = receipt.sensors
        /\ (receipt.op = "InitializeContract"
                /\ (Len(receipt.args[1]) > 50 \/ Len(receipt.args[1]) = 0
                        \/ Len(receipt.args[3]) = 0))
               => /\ receipt.result \in ValidationErrors
                  /\ contracts = receipt.contracts

\* a sensor has been initialized after the clock has advanced, next to an account
\* created at time 0
C23_Witness ==
    /\ receipt.op = "InitializeAirQuality"
    /\ receipt.result = "Ok"
    /\ receipt.clock > 0
    /\ \E a \in DOMAIN receipt.sensors : receipt.sensors[a].created_at = 0
    /\ PostSensor(1).created_at = receipt.clock
    /\ PostSensor(1).co2 = 400 * Unit

\* the fields of the proposed values of the receipt that are outside their bounds,
\* and the fields that are one unit (1.0, or 1 for aqi) outside
Outside ==
    LET d == receipt.args
    IN  {f \in Metrics :
            \/ f = "aqi" /\ d.aqi > 500
            \/ f \in {"pm25", "pm10"} /\ (d[f] < 0 \/ d[f] > 1000 * Unit)
            \/ f = "co2" /\ (d.co2 < 0 \/ d.co2 > 10000 * Unit)
            \/ f = "humidity" /\ (d.humidity < 0 \/ d.humidity > 100 * Unit)
            \/ f = "temperature" /\ (d.temperature < -50 * Unit \/ d.temperature > 100 * Unit)}
ErrorOf ==
    [f \in Metrics |->
        CASE f = "aqi" -> "InvalidAQIValue"
          [] f = "pm25" -> "InvalidPM25Value"
          [] f = "pm10" -> "InvalidPM10Value"
          [] f = "co2" -> "InvalidCO2Value"
          [] f = "humidity" -> "InvalidHumidityValue"
          [] f = "temperature" -> "InvalidTemperatureValue"]

\* C24: validate_sensor_data accepts every tuple whose six values are inside their
\* inclusive bounds (aqi 0..500, pm25 and pm10 0..1000, co2 0..10000, humidity
\* 0..100, temperature -50..100) and rejects a tuple with exactly one field outside
\* its bound with the error of that field; an update by the authority that passes
\* the significance gate returns what validate_sensor_data returns.
C24_ValidateSensorData ==
    receipt.op = "UpdateAirQuality" =>
        /\ Outside = {} => validate_sensor_data(receipt.args) = "Ok"
        /\ \A f \in Metrics :
               Outside = {f} => validate_sensor_data(receipt.args) = ErrorOf[f]
        /\ (UpdateByAuthority /\ receipt.clock - PreSensor(1).updated_at > DaySeconds)
               => /\ Outside = {} => receipt.result = "Ok" /\ ReadingOf(PostSensor(1)) = receipt.args
                  /\ \A f \in Metrics :
                         Outside = {f} => receipt.result = ErrorOf[f] /\ PostSensor(1) = PreSensor(1)

\* an update with temperature -51.0 and the other values at their lower bounds, more
\* than 24 hours after the last one, has failed with InvalidTemperatureValue
C24_Witness ==
    /\ UpdateByAuthority
    /\ receipt.clock - PreSensor(1).updated_at > DaySeconds
    /\ receipt.args = [ZeroReading EXCEPT !.temperature = -51 * Unit]
    /\ receipt.result = "InvalidTemperatureValue"
    /\ PostSensor(1) = PreSensor(1)

\* the fields of (name, description, contract_type) that violate a bound
Violating(t) ==
    {i \in 1..3 :
        \/ i = 1 /\ (Len(t[1]) > 50 \/ Len(t[1]) = 0)
        \/ i = 2 /\ Len(t[2]) > 200
        \/ i = 3 /\ (Len(t[3]) > 30 \/ Len(t[3]) = 0)}

\* C25: validate_contract_data returns success exactly when name is non-empty and at
\* most 50 bytes, description at most 200 bytes and contract_type non-empty and at
\* most 30 bytes; otherwise the error it returns identifies the field that violated
\* its bound: tuples violating different fields never get the same error (an empty
\* name and an empty contract_type get different ones).
C25_ContractErrorNamesField ==
    (receipt.op = "InitializeContract" /\ receipt.accounts[1] \notin DOMAIN receipt.contracts)
        => /\ receipt.result = validate_contract_data(receipt.args[1], receipt.args[2],
                                                      receipt.args[3])
           /\ receipt.result = "Ok" <=> Violating(receipt.args) = {}
           /\ \A t \in ContractSeeds :
                  (/\ Cardinality(Violating(receipt.args)) = 1
                   /\ Cardinality(Violating(t)) = 1
                   /\ Violating(t) # Violating(receipt.args))
                      => validate_contract_data(t[1], t[2], t[3]) # receipt.result

\* the score of the highest tier of argument i that x strictly exceeds, 0 if none
BestTier(i, x) ==
    LET exceeded == {t \in PriorityTiers[i] : x > t[1]}
    IN  IF exceeded = {} THEN 0
        ELSE (CHOOSE t \in exceeded : \A u \in exceeded : u[1] <= t[1])[2]

\* the sum of the best tiers of the seven arguments x
TierSum(x) == Sum([i \in 1..7 |-> BestTier(i, x[i])], 1..7)

\* C26: calculate_update_priority returns the sum over its seven arguments of the
\* score of the highest tier the argument strictly exceeds (tiers do not stack), and
\* no argument vector that is at least as large in every argument gets a lower score.
C26_PriorityIsTierSum ==
    receipt.op = "calculate_update_priority" =>
        /\ receipt.result = TierSum(receipt.args)
        /\ \A y \in PriorityInputs :
               (\A i \in 1..7 : y[i] >= receipt.args[i])
                   => calculate_update_priority(y[1], y[2], y[3], y[4], y[5], y[6], y[7])
                          >= receipt.result

\* an AQI change one step above 5.0 with every other argument above its top tier
\* scores 50 + 80 + 60 + 40 + 20 + 30 + 100
C26_Witness ==
    /\ receipt.op = "calculate_update_priority"
    /\ receipt.args[1] = 5 * Unit + 1
    /\ receipt.args[2] > 15 * Unit
    /\ receipt.args[3] > 20 * Unit
    /\ receipt.args[4] > 100 * Unit
    /\ receipt.args[5] > 20 * Unit
    /\ receipt.args[6] > 10 * Unit
    /\ receipt.args[7] > 86400
    /\ receipt.result = 380

\* the absolute differences of the six field pairs of the should_update of the
\* receipt and the time since updated_at, new values given
Differences(new) ==
    LET old == ReadingOf(PreSensor(1))
    IN  << Abs(new.aqi - old.aqi) * Unit, Abs(new.pm25 - old.pm25),
           Abs(new.pm10 - old.pm10), Abs(new.co2 - old.co2),
           Abs(new.humidity - old.humidity), Abs(new.temperature - old.temperature),
           receipt.clock - PreSensor(1).updated_at >>

\* the new values with the change of field f in the other direction
Mirrored(new, f) == [new EXCEPT ![f] = 2 * PreSensor(1)[f] - @]

\* C27: should_update returns true exactly when the priority score of the absolute
\* differences of the six old/new pairs and of (now - last_update) is greater than or
\* equal to minimum_score; the same change of a field in the other direction gives
\* the same result.
C27_ShouldUpdateIsScoreTest ==
    receipt.op = "should_update" =>
        /\ receipt.result = (TierSum(Differences(receipt.args[1])) >= receipt.args[2])
        /\ \A f \in Metrics :
               (f = "aqi" => Mirrored(receipt.args[1], f).aqi >= 0)
                   => should_update(ReadingOf(PreSensor(1)), Mirrored(receipt.args[1], f),
                                    PreSensor(1).updated_at, receipt.args[2], receipt.clock)
                          = receipt.result

\* a drop of humidity by one step more than 5.0 alone, with no time elapsed, meets a
\* minimum score of 4
C27_Witness ==
    /\ receipt.op = "should_update"
    /\ receipt.clock = PreSensor(1).updated_at
    /\ receipt.args[1] = [ReadingOf(PreSensor(1)) EXCEPT !.humidity = @ - (5 * Unit + 1)]
    /\ receipt.args[2] = 4
    /\ receipt.result = TRUE

\* C28: meets_percentage_threshold(old, new, pct) with old = 0 is true exactly when
\* new # 0 (old = new = 0 gives false for every pct, 0 included); with old # 0 it is
\* true exactly when |new - old| * 100 >= pct * |old|.
C28_PercentageThresholdExact ==
    receipt.op = "meets_percentage_threshold" =>
        LET old_value == receipt.args[1]
            new_value == receipt.args[2]
            pct == receipt.args[3]
        IN  /\ old_value = 0 => receipt.result = (new_value # 0)
            /\ old_value # 0 =>
                   receipt.result = (Abs(new_value - old_value) * 100 >= pct * Abs(old_value))


\* C29: an instruction on one account (initialize, update, status, details, execute),
\* whether it is applied, skipped or fails, leaves every account at another address
\* as it was, and a batch instruction leaves every account that is in none of its
\* slots as it was; a sensor instruction changes no contract and a contract
\* instruction no sensor.
C29_OtherAccountsUntouched ==
    ~Idle /\ receipt.op \in SensorOps \cup ContractOps
                 \cup {"InitializeAirQuality", "InitializeContract"} =>
        /\ receipt.op \in SensorOps \cup {"InitializeAirQuality"} =>
               /\ contracts = receipt.contracts
               /\ \A a \in DOMAIN receipt.sensors :
                      ~InSlots(a) => a \in DOMAIN sensors /\ sensors[a] = receipt.sensors[a]
        /\ receipt.op \in ContractOps \cup {"InitializeContract"} =>
               /\ sensors = receipt.sensors
               /\ \A a \in DOMAIN receipt.contracts :
                      ~InSlots(a) => a \in DOMAIN contracts
                                         /\ contracts[a] = receipt.contracts[a]
        /\ receipt.op \notin {"BatchUpdateAirQuality", "BatchContractStatusUpdate"} =>
               Len(receipt.accounts) = 1

\* a batch that flips both of its contracts while a third contract, of the other
\* identity, stays as it was
C29_Witness ==
    /\ receipt.op = "BatchContractStatusUpdate"
    /\ receipt.result = "Ok"
    /\ PostContract(1) # PreContract(1)
    /\ PostContract(2) # PreContract(2)
    /\ \E a \in DOMAIN receipt.contracts :
           /\ ~InSlots(a)
           /\ receipt.contracts[a].authority # receipt.caller
           /\ contracts[a] = receipt.contracts[a]


\* C30: the 24 hours rule fires only when more than 86400 seconds have passed since
\* the account's updated_at: an UpdateAirQuality by the authority with the values the
\* account holds is skipped (Ok, no event, account as it was) up to and at exactly
\* 86400 seconds, and applied (update_count + 1, updated_at at the clock, one event)
\* at 86401 seconds.
C30_TimeRuleStrict ==
    (UpdateByAuthority /\ receipt.args = ReadingOf(PreSensor(1))) =>
        LET elapsed == receipt.clock - PreSensor(1).updated_at
        IN  /\ receipt.result = "Ok"
            /\ elapsed <= DaySeconds =>
                   /\ PostSensor(1) = PreSensor(1)
                   /\ receipt.events = <<>>
            /\ elapsed >= DaySeconds + 1 =>
                   /\ PostSensor(1).update_count = PreSensor(1).update_count + 1
                   /\ PostSensor(1).updated_at = receipt.clock
                   /\ Len(receipt.events) = 1

\* the values the account holds have been sent exactly 86400 seconds after its
\* updated_at, and the account is as it was
C30_Witness ==
    /\ UpdateByAuthority
    /\ receipt.args = ReadingOf(PreSensor(1))
    /\ receipt.clock - PreSensor(1).updated_at = DaySeconds
    /\ receipt.result = "Ok"
    /\ receipt.events = <<>>
    /\ PostSensor(1).update_count = PreSensor(1).update_count
    /\ PostSensor(1).updated_at = receipt.clock - DaySeconds


\* the instruction of the receipt has been applied to the account of its slot
AppliedUpdate ==
    /\ UpdateByAuthority
    /\ receipt.result = "Ok"
    /\ PostSensor(1).update_count = PreSensor(1).update_count + 1
AppliedStatus ==
    /\ StatusByAuthority
    /\ receipt.result = "Ok"
    /\ PostContract(1).is_active # PreContract(1).is_active
AppliedDetails ==
    /\ DetailsByAuthority
    /\ receipt.result = "Ok"
    /\ PostContract(1).version = PreContract(1).version + 1

\* the clocks of a second submission: at once, and 86400 seconds on
ResubmitClocks == {receipt.clock, receipt.clock + DaySeconds}

\* C31: once an UpdateAirQuality has been applied, the same six values sent again no
\* more than 86400 seconds later are skipped and leave the account as the first call
\* left it; an UpdateContractStatus with the flag an applied one has stored, and an
\* UpdateContractDetails with the fields an applied one has stored, leave the account
\* as it is and emit nothing; and an update that finds its own values in an account
\* that has been updated before, no more than 86400 seconds after updated_at, raises
\* no counter.
C31_RepeatedRequestIsNoOp ==
    /\ AppliedUpdate =>
           \A t \in ResubmitClocks :
               UpdateAirQuality_process(PostSensor(1), receipt.accounts[1], receipt.args, t)
                   = [result |-> "Ok", acct |-> PostSensor(1), events |-> <<>>]
    /\ AppliedStatus =>
           \A t \in ResubmitClocks :
               process_status_update(PostContract(1), receipt.accounts[1], receipt.args, t)
                   = [result |-> "Ok", acct |-> PostContract(1), events |-> <<>>]
    /\ AppliedDetails =>
           \A t \in ResubmitClocks :
               UpdateContractDetails_process(PostContract(1), receipt.accounts[1],
                                             receipt.args[1], receipt.args[2],
                                             receipt.args[3], t)
                   = [result |-> "Ok", acct |-> PostContract(1), events |-> <<>>]
    /\ (/\ UpdateByAuthority
        /\ PreSensor(1).update_count >= 1
        /\ receipt.args = ReadingOf(PreSensor(1))
        /\ receipt.clock - PreSensor(1).updated_at <= DaySeconds)
           => /\ receipt.result = "Ok"
              /\ receipt.events = <<>>
              /\ sensors = receipt.sensors
              /\ Mutations(sensors, contracts) = Mutations(receipt.sensors, receipt.contracts)

\* the values of an update applied after the clock has passed 24 hours have been sent
\* again at the same clock value, and the account has been left as it was
C31_Witness ==
    /\ UpdateByAuthority
    /\ PreSensor(1).update_count = 1
    /\ PreSensor(1).updated_at = DaySeconds + 1
    /\ receipt.clock = PreSensor(1).updated_at
    /\ receipt.args = ReadingOf(PreSensor(1))
    /\ receipt.result = "Ok"
    /\ receipt.events = <<>>
    /\ PostSensor(1) = PreSensor(1)


\* UpdateAirQuality on slot i with entry i, then on slot i + 1 with entry i + 1, ...,
\* each a transaction of its own at the same clock value: [result, store, events];
\* a transaction that fails leaves the store as the ones before it left it
RECURSIVE SequenceOfUpdates(_, _, _, _, _, _)
SequenceOfUpdates(store, addrs, sensor_data, i, clock, events) ==
    IF i > Len(sensor_data)
    THEN [result |-> "Ok", store |-> store, events |-> events]
    ELSE LET r == UpdateAirQuality_process(store[addrs[i]], addrs[i], sensor_data[i], clock)
         IN  IF r.result # "Ok"
             THEN [result |-> r.result, store |-> store, events |-> events]
             ELSE SequenceOfUpdates([store EXCEPT ![addrs[i]] = r.acct], addrs, sensor_data,
                                    i + 1, clock, events \o r.events)

\* UpdateContractStatus on slot i with flag i, then on slot i + 1 with flag i + 1, ...
RECURSIVE SequenceOfStatusUpdates(_, _, _, _, _, _)
SequenceOfStatusUpdates(store, addrs, statuses, i, clock, events) ==
    IF i > Len(statuses)
    THEN [result |-> "Ok", store |-> store, events |-> events]
    ELSE LET r == process_status_update(store[addrs[i]], addrs[i], statuses[i], clock)
         IN  IF r.result # "Ok"
             THEN [result |-> r.result, store |-> store, events |-> events]
             ELSE SequenceOfStatusUpdates([store EXCEPT ![addrs[i]] = r.acct], addrs,
                                          statuses, i + 1, clock, events \o r.events)

StatusBatchByAuthority ==
    /\ receipt.op = "BatchContractStatusUpdate"
    /\ \A i \in DOMAIN receipt.accounts : receipt.caller = PreContract(i).authority

\* C32: a BatchUpdateAirQuality by the authority of its three distinct accounts that
\* succeeds leaves every sensor account as the UpdateAirQuality instructions with
\* entry 1 on slot 1, entry 2 on slot 2, ... leave it when they run one after another
\* at the same clock value, none of these fails, and the batch emits the events they
\* emit, in their order; the same for a BatchContractStatusUpdate that succeeds and
\* UpdateContractStatus on slots 1 and 2.
C32_BatchIsSequenceOfSingles ==
    /\ (BatchByAuthority /\ receipt.result = "Ok") =>
           LET q == SequenceOfUpdates(receipt.sensors, receipt.accounts, receipt.args, 1,
                                      receipt.clock, <<>>)
           IN  /\ q.result = "Ok"
               /\ q.store = sensors
               /\ q.events = receipt.events
    /\ (StatusBatchByAuthority /\ receipt.result = "Ok") =>
           LET q == SequenceOfStatusUpdates(receipt.contracts, receipt.accounts,
                                            receipt.args, 1, receipt.clock, <<>>)
           IN  /\ q.result = "Ok"
               /\ q.store = contracts
               /\ q.events = receipt.events

\* a batch of two entries has skipped the first, whose humidity is out of range but
\* close to the stored one, and applied the second
C32_Witness ==
    /\ BatchByAuthority
    /\ receipt.result = "Ok"
    /\ Len(receipt.args) = 2
    /\ validate_sensor_data(receipt.args[1]) # "Ok"
    /\ PostSensor(1) = PreSensor(1)
    /\ PostSensor(2).update_count = PreSensor(2).update_count + 1
    /\ Len(receipt.events) = 1


\* the batch of the receipt has fewer entries than slots
ShortBatch ==
    /\ receipt.op \in {"BatchUpdateAirQuality", "BatchContractStatusUpdate"}
    /\ Len(receipt.args) < Len(receipt.accounts)

\* the accounts of the slots before and after the batch of the receipt
PreSlot(i) ==
    IF receipt.op = "BatchUpdateAirQuality" THEN PreSensor(i) ELSE PreContract(i)
PostSlot(i) ==
    IF receipt.op = "BatchUpdateAirQuality" THEN PostSensor(i) ELSE PostContract(i)

\* C33: in a batch with fewer entries than slots (fewer than 3 sensor entries, fewer
\* than 2 status flags) a slot that has an entry is changed by that entry only (it
\* is as it was, or holds the values of its own entry), the slots without an entry
\* are as they were and no event names them, and the batch is still refused with
\* UnauthorizedAccess, changing nothing, when the account of any slot, with or
\* without an entry, has another authority than the caller.
C33_SlotsWithoutEntryUntouched ==
    ShortBatch =>
        /\ (\E j \in DOMAIN receipt.accounts : PreSlot(j).authority # receipt.caller) =>
               /\ receipt.result = "UnauthorizedAccess"
               /\ sensors = receipt.sensors
               /\ contracts = receipt.contracts
               /\ receipt.events = <<>>
        /\ \A j \in DOMAIN receipt.accounts :
               j > Len(receipt.args) =>
                   /\ PostSlot(j) = PreSlot(j)
                   /\ \A e \in DOMAIN receipt.events :
                          receipt.events[e].account # receipt.accounts[j]
        /\ \A i \in DOMAIN receipt.args :
               PostSlot(i) # PreSlot(i) =>
                   IF receipt.op = "BatchUpdateAirQuality"
                   THEN /\ ReadingOf(PostSensor(i)) = receipt.args[i]
                        /\ PostSensor(i).update_count = PreSensor(i).update_count + 1
                   ELSE /\ PostContract(i).is_active = receipt.args[i]
                        /\ PreContract(i).is_active # receipt.args[i]

\* a batch of one flag has flipped the contract of slot 1 and left the contract of
\* slot 2, which holds the other flag, as it was
C33_Witness ==
    /\ StatusBatchByAuthority
    /\ receipt.result = "Ok"
    /\ Len(receipt.args) = 1
    /\ PostContract(1).is_active # PreContract(1).is_active
    /\ PreContract(2).is_active # receipt.args[1]
    /\ PostContract(2) = PreContract(2)
    /\ Len(receipt.events) = 1


\* C34: no instruction changes the created_at of an account that exists, an account
\* an instruction creates has the clock of that instruction as its created_at, and
\* with a clock that never goes back every account has created_at <= updated_at.
C34_CreatedAtFixed ==
    /\ \A a \in DOMAIN sensors : sensors[a].created_at <= sensors[a].updated_at
    /\ \A a \in DOMAIN contracts : contracts[a].created_at <= contracts[a].updated_at
    /\ ~Idle =>
           /\ \A a \in DOMAIN sensors :
                  sensors[a].created_at =
                      IF a \in DOMAIN receipt.sensors THEN receipt.sensors[a].created_at
                      ELSE receipt.clock
           /\ \A a \in DOMAIN contracts :
                  contracts[a].created_at =
                      IF a \in DOMAIN receipt.contracts THEN receipt.contracts[a].created_at
                      ELSE receipt.clock

\* a contract initialized at 0 has been executed after the clock has advanced: its
\* created_at is still 0 and its updated_at is the clock
C34_Witness ==
    /\ ExecuteByAuthority
    /\ receipt.result = "Ok"
    /\ PreContract(1).created_at = 0
    /\ PostContract(1).created_at = 0
    /\ PostContract(1).updated_at = receipt.clock
    /\ receipt.clock > 0
    /\ \E a \in DOMAIN sensors : sensors[a].created_at = receipt.clock


\* what update_air_quality and update_contract_status of lib.rs return for the
\* request of the receipt on the account as the receipt found it
UngatedUpdate ==
    update_air_quality(LibAirQuality(PreSensor(1)), receipt.accounts[1], receipt.args,
                       receipt.clock)
UngatedStatus ==
    update_contract_status(LibContract(PreContract(1)), receipt.accounts[1], receipt.args,
                           receipt.clock)

\* the gate has skipped the request of the receipt
SkippedUpdate ==
    /\ UpdateByAuthority
    /\ ~is_significant_change(PreSensor(1), receipt.args, receipt.clock)
SkippedStatus ==
    /\ StatusByAuthority
    /\ receipt.args = PreContract(1).is_active

\* C35: update_air_quality of lib.rs and the gated UpdateAirQuality leave the same six
\* values and updated_at, and emit the same event, for every request that passes the
\* gate and is in range; a request the gated instruction rejects is rejected by
\* update_air_quality with the same error; update_contract_status and the gated
\* UpdateContractStatus leave the same is_active and updated_at for a flag that
\* differs from the stored one; and every request the gate skips is written by the
\* revision of lib.rs (the values or the flag stored, updated_at at the clock).
C35_RevisionsAgreeOffTheGate ==
    /\ (UpdateByAuthority /\ ~SkippedUpdate) =>
           /\ UngatedUpdate.result = receipt.result
           /\ UngatedUpdate.acct = LibAirQuality(PostSensor(1))
           /\ UngatedUpdate.events = receipt.events
    /\ (StatusByAuthority /\ ~SkippedStatus) =>
           /\ UngatedStatus.result = receipt.result
           /\ UngatedStatus.acct = LibContract(PostContract(1))
           /\ UngatedStatus.events = receipt.events
    /\ SkippedUpdate =>
           /\ PostSensor(1) = PreSensor(1)
           /\ UngatedUpdate.result = "Ok"
           /\ ReadingOf(UngatedUpdate.acct) = receipt.args
           /\ UngatedUpdate.acct.updated_at = receipt.clock
    /\ SkippedStatus =>
           /\ PostContract(1) = PreContract(1)
           /\ UngatedStatus.result = "Ok"
           /\ UngatedStatus.acct.is_active = receipt.args
           /\ UngatedStatus.acct.updated_at = receipt.clock

====
